---- MODULE Spec2Model ----
(***************************************************************************)
(* Quiz-solving sequence controller (quiz_handler.py), the execution       *)
(* adapter and its output parser (code_executor.py).                       *)
(*                                                                         *)
(* Three machines over disjoint variables: Spec (the sequence controller), *)
(* SpecParser (execute_code and _parse_submission_result step by step, on  *)
(* every output of at most MaxItems items) and SpecBudget (the budget      *)
(* clock of two chains side by side).                                      *)
(*                                                                         *)
(* Python values are modelled as strings: None is "None", the empty string *)
(* is "", True/False are "True"/"False".  A key that a dict does not hold  *)
(* is "Absent"; dict.get(key) turns it into "None".                        *)
(***************************************************************************)
EXTENDS Integers, Sequences, FiniteSets, TLC

(* ---------------- program constants (config.py) ---------------- *)
QUIZ_TIMEOUT_SECONDS == 180
SKIP_THRESHOLD_SECONDS == 15

(* ---------------- bounds of the model ---------------- *)
\* questions a chain may process before the model stops following it
MaxQuestions == 2

\* Clock readings (seconds since question_start_time) the model distinguishes:
\* a few early instants, and the instants around the two thresholds
\* (remaining = 31, 30, 15, 14, 10, 5).  The clock is read at the decision
\* points only; successive readings separated by an await strictly increase.
Times == {1, 2, 3, 149, 150, 165, 166, 170, 175}

URLs == {"u1", "u2"}
None == "None"
Absent == "Absent"

(* ---------------- Python semantics used by the code ---------------- *)
\* bool(v): None, "", 0 and False are falsy
Truthy(v) == v \notin {"None", "", "0", "False"}

\* a or b
PyOr(a, b) == IF Truthy(a) THEN a ELSE b

\* dict.get(key, False)
Get_false(d, k) == IF d[k] = Absent THEN "False" ELSE d[k]

\* dict.get(key) on a parsed blob
Get(d, k) == IF d[k] = Absent THEN None ELSE d[k]

(* ---------------- captured output and the output parser ---------------- *)
\* A brace-delimited blob of the output.  form: "json" (valid JSON, hence
\* also what json.loads returns: a dict), "py" (a Python dict literal that
\* is not JSON), "pyset" (a Python set literal such as {'correct'}), "bad"
\* (neither parser accepts it).  quoted: the blob's text holds "correct" or
\* 'correct' in quotes (what the scavenger's regular expression looks for).
\* esc: the text of the url uses a JSON backslash escape (such as \/).
\* In a "json" blob the values "True", "False" and "None" are spelled
\* true, false and null.
MkBlob(form, correct, url, next_url, reason) ==
    [form |-> form, correct |-> correct, url |-> url, next_url |-> next_url,
     reason |-> reason, quoted |-> (correct # Absent), esc |-> FALSE]

\* One printed item of the output: free text, a status line, a labelled
\* response body, or a blob with no label.
TextItem == [kind |-> "text", code |-> None, blob |-> None]
StatusItem(n) == [kind |-> "status", code |-> n, blob |-> None]
ResponseItem(b) == [kind |-> "response", code |-> None, blob |-> b]
BlobItem(b) == [kind |-> "blob", code |-> None, blob |-> b]

\* the key/value pairs a blob's text writes down
Fields(b) ==
    [correct |-> b.correct, url |-> b.url, next_url |-> b.next_url, reason |-> b.reason]

NoFields == [correct |-> Absent, url |-> Absent, next_url |-> Absent, reason |-> Absent]

\* what a parser makes of a blob: kind is "dict" (a mapping, obj holds it),
\* "set" (a non-mapping literal) or "fail" (the parser raised)
Parsed(kind, obj) == [kind |-> kind, obj |-> obj]

\* json.loads(s)
JsonLoads(b) ==
    IF b.form = "json" THEN Parsed("dict", Fields(b)) ELSE Parsed("fail", NoFields)

\* the blob's text holds one of the JSON tokens true, false, null, which are
\* plain names, not literals, to Python
JsonOnlyTokens(b) ==
    b.form = "json" /\ \E k \in DOMAIN Fields(b) : Fields(b)[k] \in {"True", "False", "None"}

\* a URL as Python reads its JSON text when that text uses a backslash
\* escape Python does not know: the backslash stays in the string
RawUrl(u) == CASE u = "u1" -> "u1\\" [] u = "u2" -> "u2\\" [] OTHER -> u

\* ast.literal_eval(s)
LiteralEval(b) ==
    CASE b.form = "py" -> Parsed("dict", Fields(b))
      [] b.form = "pyset" -> Parsed("set", NoFields)
      [] b.form = "json" /\ ~JsonOnlyTokens(b) ->
            Parsed("dict", IF b.esc THEN [Fields(b) EXCEPT !.url = RawUrl(@)] ELSE Fields(b))
      [] OTHER -> Parsed("fail", NoFields)

\* ast.literal_eval tried before json.loads
ParseBlob_permissive(b) ==
    IF LiteralEval(b).kind # "fail" THEN LiteralEval(b) ELSE JsonLoads(b)

\* json.loads(s) falling back to ast.literal_eval(s)
ParseBlob(b) ==
    IF JsonLoads(b).kind # "fail" THEN JsonLoads(b) ELSE LiteralEval(b)

\* the dict is empty (falsy)
EmptyDict(d) ==
    /\ d.correct = Absent /\ d.url = Absent
    /\ d.next_url = Absent /\ d.reason = Absent

\* submission dicts; is_empty marks {} (no key at all), which is falsy
EmptySubmission ==
    [is_empty |-> TRUE, correct |-> None, next_url |-> None, reason |-> None,
     status_code |-> None]

NewSubmission ==
    [is_empty |-> FALSE, correct |-> None, next_url |-> None, reason |-> None,
     status_code |-> None]

\* the least index of S, or 0 when S is empty (re.search finds the first match)
FirstOf(S) == IF S = {} THEN 0 ELSE CHOOSE j \in S : \A k \in S : j <= k

IsStatus(it) == it.kind = "status"
IsResponse(it) == it.kind = "response"
IsCandidate(it) == it.kind \in {"response", "blob"} /\ it.blob.quoted

\* step 1: the first status label wins
ParseStatus(output, sub) ==
    LET i == FirstOf({j \in 1..Len(output) : IsStatus(output[j])})
    IN IF i = 0 THEN sub ELSE [sub EXCEPT !.status_code = output[i].code]

\* int(status_match.group(1)) raises ValueError when the digits are more than
\* the interpreter converts (status code "huge")
StatusRaises(output) ==
    LET i == FirstOf({j \in 1..Len(output) : IsStatus(output[j])})
    IN i # 0 /\ output[i].code = "huge"

\* only the key next_url read for the verdict's next_url
Extract_nexturl(sub, d) ==
    [sub EXCEPT !.correct = Get(d, "correct"),
                !.next_url = Get(d, "next_url"),
                !.reason = Get(d, "reason")]

\* fields taken from a parsed mapping
Extract(sub, d) ==
    [sub EXCEPT !.correct = Get(d, "correct"),
                !.next_url = PyOr(Get(d, "url"), Get(d, "next_url")),
                !.reason = Get(d, "reason")]

\* step 2: the first labelled response body.  The result is <<sub, raised>>:
\* response_data.get on a non-mapping raises inside the outer try.
ParseResponse(output, sub) ==
    LET i == FirstOf({j \in 1..Len(output) : IsResponse(output[j])})
    IN IF i = 0 THEN <<sub, FALSE>>
       ELSE LET b == output[i].blob
                p == ParseBlob(b)
            IN CASE p.kind = "fail" -> <<sub, FALSE>>
                 [] p.kind = "set" -> <<sub, TRUE>>
                 [] p.kind = "dict" /\ EmptyDict(p.obj) -> <<sub, FALSE>>
                 [] OTHER -> <<Extract(sub, p.obj), FALSE>>

\* step 3: the scavenger, from candidate i on: unparseable candidates are
\* skipped, the first one that parses is used and ends the scan
RECURSIVE Scavenge(_, _, _)
Scavenge(output, i, sub) ==
    LET j == FirstOf({k \in i..Len(output) : IsCandidate(output[k])})
    IN IF j = 0 THEN sub
       ELSE LET b == output[j].blob
                p == ParseBlob(b)
            IN CASE p.kind = "fail" -> Scavenge(output, j + 1, sub)
                 [] p.kind = "set" -> sub
                 [] OTHER -> Extract(sub, p.obj)

\* the scavenger's data.get raises: its first parseable candidate is no mapping
RECURSIVE ScavengeRaises(_, _)
ScavengeRaises(output, i) ==
    LET j == FirstOf({k \in i..Len(output) : IsCandidate(output[k])})
    IN IF j = 0 THEN FALSE
       ELSE LET p == ParseBlob(output[j].blob)
            IN CASE p.kind = "fail" -> ScavengeRaises(output, j + 1)
                 [] p.kind = "set" -> TRUE
                 [] OTHER -> FALSE

\* the scavenger run whatever primary extraction found
ScavengerRuns_always(sub) == TRUE

\* the scavenger run whenever any of the three fields is still unset
ScavengerRuns_missing(sub) == sub.correct = None \/ sub.next_url = None \/ sub.reason = None

\* if submission['correct'] is None: the scavenger runs
ScavengerRuns(sub) == sub.correct = None

ParseSubmissionResult(output) ==
    IF StatusRaises(output) THEN NewSubmission
    ELSE LET s1 == ParseStatus(output, NewSubmission)
             r2 == ParseResponse(output, s1)
         IN IF r2[2] THEN r2[1]
            ELSE IF ScavengerRuns(r2[1]) THEN Scavenge(output, 1, r2[1])
            ELSE r2[1]

\* execute_code's finally block: empty output gives {}, anything else is parsed
SubmissionOf(output) ==
    IF output = <<>> THEN EmptySubmission ELSE ParseSubmissionResult(output)

\* a verdict with every field unset taken for no verdict
NoSubmission_unset(sub) ==
    sub.is_empty \/ (sub.correct = None /\ sub.next_url = None /\ sub.reason = None)

\* `not submission_result`: only the empty dict is falsy
NoSubmission(sub) == sub.is_empty

\* submission_result.get(key)
SubGet(sub, k) == IF sub.is_empty THEN None ELSE sub[k]

(* ---------------- outputs the executed programs print ---------------- *)
CorrectValues == {"True", "False", "None", "yes", "0"}
UrlValues == {Absent, ""} \cup URLs

\* a status line and a labelled JSON body, for every value of correct and url
LabelledOutputs ==
    {<<StatusItem("200"), ResponseItem(MkBlob("json", c, u, Absent, Absent))>> :
        c \in CorrectValues, u \in UrlValues}

Outputs ==
    LabelledOutputs \cup
    { <<>>,
      <<TextItem>>,
      <<ResponseItem(MkBlob("bad", "True", "u2", Absent, Absent))>>,
      <<ResponseItem(MkBlob("json", Absent, "u2", Absent, Absent))>>,
      <<ResponseItem(MkBlob("pyset", "True", Absent, Absent, Absent))>>,
      <<TextItem, BlobItem(MkBlob("py", "False", Absent, "u2", "r"))>> }

\* what a program has printed when it raises
FailOutputs ==
    { <<>>,
      <<TextItem>>,
      <<StatusItem("200"), ResponseItem(MkBlob("json", "True", "u2", Absent, Absent))>>,
      <<StatusItem("200"), ResponseItem(MkBlob("json", "False", Absent, Absent, Absent))>> }

(* ---------------- the sequence controller ---------------- *)
VARIABLES
    pc,               \* where the background task is
    initial_url,      \* solve_quiz_sequence: initial_url
    current_url,      \* solve_quiz_sequence: current_url
    quiz_number,      \* solve_quiz_sequence: quiz_number
    stats,            \* solve_quiz_sequence: stats
    result,           \* the outcome solve_single_quiz returned last
    elapsed,          \* the last reading of datetime.now() - start_time, in seconds
    question_data,    \* solve_single_quiz: question_data
    solution_code,    \* solve_single_quiz: solution_code
    execution_result, \* solve_single_quiz: execution_result (first execution)
    retry_code,       \* retry helpers: fixed_code / retry_code
    trace             \* the collaborator calls and decisions of this question

vars == <<pc, initial_url, current_url, quiz_number, stats, result, elapsed, question_data,
          solution_code, execution_result, retry_code, trace>>

(* ---------------- the execution adapter and the parser, step by step ---------------- *)
VARIABLES
    parse_pc,         \* where execute_code / _parse_submission_result is
    captured_output,  \* execute_code: captured_output.getvalue(); the parser's `output`
    submission,       \* _parse_submission_result: submission
    exec_how,         \* how exec(code, env) ends: "ok", "raise", "exit"; "none": parser called alone
    exec_result,      \* execute_code: result
    stdout,           \* sys.stdout of the process: "console", or "capture" for the StringIO
    old_stdout,       \* execute_code: old_stdout
    printed           \* everything the executed program has passed to print() so far

pvars == <<parse_pc, captured_output, submission, exec_how, exec_result, stdout, old_stdout, printed>>

\* the stream and the record of the program's print calls
svars == <<stdout, old_stdout, printed>>

\* result = {'success': False, 'output': None, 'error': None, 'submission_result': None};
\* submission_is_none tells None from a dict in submission_result
InitialResult ==
    [success |-> FALSE, output_is_none |-> TRUE, error_is_none |-> TRUE,
     submission_is_none |-> TRUE, submission_result |-> EmptySubmission]

\* the adapter and the parser are not running
ParserOff ==
    /\ parse_pc = "off"
    /\ captured_output = <<>>
    /\ submission = NewSubmission
    /\ exec_how = "none"
    /\ exec_result = InitialResult
    /\ stdout = "console"
    /\ old_stdout = "console"
    /\ printed = <<>>

(* ---------------- the budget clock of two chains side by side ---------------- *)
VARIABLES
    budget_pc,            \* where the two chains are: "init", "between", "question", "entry", "over"
    sequence_start_time,  \* solve_quiz_sequence: sequence_start_time, per chain
    question_start_time,  \* solve_quiz_sequence: question_start_time, per chain
    now,                  \* datetime.now() of each chain
    began,                \* the instant each chain began the question under watch
    earlier,              \* questions each chain has processed before it
    decisions             \* the decisions each chain has taken for it

bvars == <<budget_pc, sequence_start_time, question_start_time, now, began, earlier, decisions>>

\* the two chains compared
Chains == {"A", "B"}

\* the budget clocks are not running
BudgetOff ==
    /\ budget_pc = "off"
    /\ sequence_start_time = [c \in Chains |-> 0]
    /\ question_start_time = [c \in Chains |-> 0]
    /\ now = [c \in Chains |-> 0]
    /\ began = [c \in Chains |-> 0]
    /\ earlier = 0
    /\ decisions = [c \in Chains |-> <<>>]

(* ---------------- the trigger endpoint and the chains on one event loop ---------------- *)
VARIABLES
    inbox,        \* the trigger requests received so far, in order of arrival
    handler_pc,   \* handle_quiz of each request: "json", "spawned", "returned"
    response,     \* the HTTP status handle_quiz produced for each request, 0 before
    chain,        \* the background task of each request and the locals of its QuizHandler
    holder,       \* the coroutine that occupies the event loop thread without yielding
    sys_stdout,   \* sys.stdout: 0 the process's stream, c the StringIO of chain c's execution
    buffer,       \* the text each StringIO holds: whose print calls landed in it
    actor,        \* the coroutine that took the last step
    clock         \* datetime.now(), in page fetches completed so far

\* the trigger requests followed, numbered in order of arrival
RequestIds == {1, 2}

\* coroutines: nobody, handle_quiz of request r, the background task of request c
Free == [kind |-> "none", id |-> 0]
Handler(r) == [kind |-> "handler", id |-> r]
ChainTask(c) == [kind |-> "chain", id |-> c]

ZeroStats == [total |-> 0, correct |-> 0, incorrect |-> 0, skipped |-> 0, errors |-> 0]

\* no task exists for the request
NoChain ==
    [pc |-> "none", current_url |-> "", quiz_number |-> 1, stats |-> ZeroStats,
     question_start_time |-> 0, old_stdout |-> 0, retried |-> FALSE,
     execution_result |-> [success |-> FALSE, output |-> <<>>]]

(* ---------------- the page fetch step and its browser resources ---------------- *)
VARIABLES
    engine_pc,    \* where `async with BrowserEngine() as browser: visit_quiz_page` is
    acquired,     \* what this BrowserEngine has acquired and not released
    leaked,       \* resources still unreleased after control left their fetch step
    fetches,      \* fetch steps control has left
    exit_how      \* "none", "raising" inside the step; "return", "raise" once control left

(* ---------------- the executor's namespaces ---------------- *)
VARIABLES
    sandbox_pc,   \* "idle" between executions, "running" inside exec(code, execution_env)
    heap,         \* the dict objects: "registry" is self.execution_globals, "env1", "env2" copies
    env_ref,      \* execute_code: execution_env, the dict object exec runs against
    seen,         \* the bindings the running program found when it started
    runs,         \* executions completed
    statements    \* top-level statements the running program has executed

\* the names followed in a namespace
Names == {"print", "pd", "answer", "QUIZ_URL", "STUDENT_SECRET"}

\* _setup_execution_environment: the registry built in CodeExecutor.__init__
Registry ==
    [n \in Names |-> CASE n = "print" -> "builtin print" [] n = "pd" -> "pandas" [] OTHER -> Absent]

xvars == <<inbox, handler_pc, response, chain, holder, sys_stdout, buffer, actor, clock,
           engine_pc, acquired, leaked, fetches, exit_how,
           sandbox_pc, heap, env_ref, seen, runs, statements>>

\* no request has arrived, no page fetch has begun, nothing has been executed
ExtraOff ==
    /\ inbox = <<>>
    /\ handler_pc = <<>>
    /\ response = <<>>
    /\ chain = [r \in RequestIds |-> NoChain]
    /\ holder = Free
    /\ sys_stdout = 0
    /\ buffer = [r \in RequestIds |-> <<>>]
    /\ actor = Free
    /\ clock = 0
    /\ engine_pc = "idle"
    /\ acquired = {}
    /\ leaked = 0
    /\ fetches = 0
    /\ exit_how = "none"
    /\ sandbox_pc = "idle"
    /\ heap = [d \in {"registry", "env1", "env2"} |-> Registry]
    /\ env_ref = "env2"
    /\ seen = Registry
    /\ runs = 0
    /\ statements = 0

InitialUrls == {""} \cup URLs

Remaining(t) == QUIZ_TIMEOUT_SECONDS - t

\* clock readings after (at or after) reading t
Later(t) == {x \in Times : x > t}
NotBefore(t) == {x \in Times : x >= t}

\* remaining > settings.SKIP_THRESHOLD_SECONDS * 2
EnoughTime(remaining) == remaining > SKIP_THRESHOLD_SECONDS * 2

\* the entry check of the retry helpers left out
TooLate_never(remaining) == FALSE

\* remaining < settings.SKIP_THRESHOLD_SECONDS (entry of the retry helpers)
TooLate(remaining) == remaining < SKIP_THRESHOLD_SECONDS

Outcome(status, next_url) == [status |-> status, next_url |-> next_url]

CodeOf(k) == CASE k = 1 -> "code1" [] k = 2 -> "code2" [] OTHER -> "code3"

\* events of the trace
FetchEv(ok) == [ev |-> "fetch", ok |-> ok]
GenEv(mode, code) ==
    [ev |-> "generate", mode |-> mode, code |-> code, question |-> question_data]
ExecEv(code, how, sub) == [ev |-> "execute", code |-> code, how |-> how, sub |-> sub]
DecideEv(at, remaining, took) ==
    [ev |-> "decide", at |-> at, remaining |-> remaining, took |-> took]
FallbackEv(target, payload, resp) ==
    [ev |-> "fallback", target |-> target, payload |-> payload, resp |-> resp]

Count(kind) == Cardinality({i \in 1..Len(trace) : trace[i].ev = kind})

\* the code the next generator call returns when it returns any
NextCode == CodeOf(Count("generate") + 1)

\* execution_result before the question's first execution: nothing assigned yet
NoExecution == [success |-> FALSE, output |-> <<>>, submission_result |-> EmptySubmission]

Init ==
    /\ pc = "loop"
    /\ initial_url \in InitialUrls
    /\ current_url = initial_url
    /\ quiz_number = 1
    /\ stats = [total |-> 0, correct |-> 0, incorrect |-> 0, skipped |-> 0, errors |-> 0]
    /\ result = Outcome("none", None)
    /\ elapsed = 0
    /\ question_data = None
    /\ solution_code = None
    /\ execution_result = NoExecution
    /\ retry_code = None
    /\ trace = <<>>
    /\ ParserOff
    /\ BudgetOff
    /\ ExtraOff

\* solve_single_quiz returns `o` to the loop
Return(o) ==
    /\ result' = o
    /\ pc' = "returned"

\* while current_url: ... question_start_time = datetime.now(); solve_single_quiz(...)
StartQuestion ==
    /\ pc = "loop"
    /\ Truthy(current_url)
    /\ stats.total < MaxQuestions
    /\ pc' = "fetch"
    /\ elapsed' = 0
    /\ question_data' = None
    /\ solution_code' = None
    /\ execution_result' = NoExecution
    /\ retry_code' = None
    /\ trace' = <<>>
    /\ UNCHANGED <<initial_url, current_url, quiz_number, stats, result>>

\* while current_url: false on entry
LoopExit ==
    /\ pc = "loop"
    /\ ~Truthy(current_url)
    /\ pc' = "done"
    /\ UNCHANGED <<initial_url, current_url, quiz_number, stats, result, elapsed, question_data,
                   solution_code, execution_result, retry_code, trace>>

\* the skipped counter forgotten
Tally_noskipped(st, status) ==
    LET t == [st EXCEPT !.total = @ + 1]
    IN CASE status = "correct" -> [t EXCEPT !.correct = @ + 1]
         [] status = "incorrect" -> [t EXCEPT !.incorrect = @ + 1]
         [] status = "error" -> [t EXCEPT !.errors = @ + 1]
         [] OTHER -> t

\* stats['total'] += 1; the counter of result['status'] += 1
Tally(st, status) ==
    LET t == [st EXCEPT !.total = @ + 1]
    IN CASE status = "correct" -> [t EXCEPT !.correct = @ + 1]
         [] status = "incorrect" -> [t EXCEPT !.incorrect = @ + 1]
         [] status = "error" -> [t EXCEPT !.errors = @ + 1]
         [] status = "skipped" -> [t EXCEPT !.skipped = @ + 1]
         [] OTHER -> t

\* Advance with a cap of one question on the chain
Advance_capped ==
    /\ pc = "returned"
    /\ stats' = Tally(stats, result.status)
    /\ pc' = "done"
    /\ UNCHANGED <<initial_url, current_url, quiz_number, result, elapsed, question_data,
                   solution_code, execution_result, retry_code, trace>>

\* after solve_single_quiz: statistics, then next_url decides the loop
Advance ==
    /\ pc = "returned"
    /\ stats' = Tally(stats, result.status)
    /\ IF Truthy(result.next_url)
       THEN /\ current_url' = result.next_url
            /\ quiz_number' = quiz_number + 1
            /\ pc' = "loop"
       ELSE /\ pc' = "done"
            /\ UNCHANGED <<current_url, quiz_number>>
    /\ UNCHANGED <<initial_url, result, elapsed, question_data, solution_code, execution_result,
                   retry_code, trace>>

\* async with BrowserEngine() as browser: question_data = await browser.visit_quiz_page(quiz_url)
FetchOk ==
    /\ pc = "fetch"
    /\ question_data' = current_url
    /\ trace' = Append(trace, FetchEv(TRUE))
    /\ pc' = "generate"
    /\ UNCHANGED <<initial_url, current_url, quiz_number, stats, result, elapsed, solution_code,
                   execution_result, retry_code>>

\* a failed fetch answered with the fallback submission
FetchFail_fallback ==
    /\ pc = "fetch"
    /\ trace' = Append(trace, FetchEv(FALSE))
    /\ pc' = "fallback"
    /\ UNCHANGED <<initial_url, current_url, quiz_number, stats, result, elapsed,
                   question_data, solution_code, execution_result, retry_code>>

\* the page fetch throws: except Exception -> error
FetchFail ==
    /\ pc = "fetch"
    /\ trace' = Append(trace, FetchEv(FALSE))
    /\ Return(Outcome("error", None))
    /\ UNCHANGED <<initial_url, current_url, quiz_number, stats, elapsed, question_data, solution_code,
                   execution_result, retry_code>>

\* the regeneration attempted whatever the clock says
AfterNoCode_always(remaining) == "regenerate"

\* the branch taken when the first generation returned None
AfterNoCode(remaining) == IF EnoughTime(remaining) THEN "regenerate" ELSE "fallback"

\* solution_code = await self.llm_solver.generate_solution(question_data)
Generate ==
    /\ pc = "generate"
    /\ \E code \in {None, NextCode} :
        /\ solution_code' = code
        /\ IF code # None
           THEN /\ trace' = Append(trace, GenEv("plain", code))
                /\ pc' = "execute"
                /\ UNCHANGED elapsed
           ELSE \E t \in Later(elapsed) :
                /\ elapsed' = t
                /\ trace' = trace \o <<GenEv("plain", code),
                                       DecideEv("no_code", Remaining(t), AfterNoCode(Remaining(t)))>>
                /\ pc' = AfterNoCode(Remaining(t))
    /\ UNCHANGED <<initial_url, current_url, quiz_number, stats, result, question_data, execution_result,
                   retry_code>>

\* a second missing code answered with the fallback submission
Regenerate_fallback ==
    /\ pc = "regenerate"
    /\ \E code \in {None, NextCode} :
        /\ solution_code' = code
        /\ trace' = Append(trace, GenEv("plain", code))
        /\ pc' = IF code = None THEN "fallback" ELSE "execute"
    /\ UNCHANGED <<initial_url, current_url, quiz_number, stats, result, elapsed, question_data,
                   execution_result, retry_code>>

\* the regeneration: generate_solution(question_data) once more
Regenerate ==
    /\ pc = "regenerate"
    /\ \E code \in {None, NextCode} :
        /\ solution_code' = code
        /\ trace' = Append(trace, GenEv("plain", code))
        /\ IF code = None
           THEN Return(Outcome("error", None))
           ELSE pc' = "execute" /\ UNCHANGED result
    /\ UNCHANGED <<initial_url, current_url, quiz_number, stats, elapsed, question_data,
                   execution_result, retry_code>>

\* what one run of exec(code, env) can do: finish, raise an Exception, or
\* raise a BaseException that is no Exception (SystemExit from sys.exit());
\* exec(None) raises TypeError before anything is printed
Runs(code) ==
    IF code = None THEN {<<"raise", <<>>>>}
    ELSE {<<"exit", <<>>>>} \cup ({"ok"} \X Outputs) \cup ({"raise"} \X FailOutputs)

\* a run that raised after printing a verdict counted as a success
ExecResult_lenient(how, output) ==
    [success |-> (how = "ok" \/ ~NoSubmission(SubmissionOf(output))), output |-> output,
     submission_result |-> SubmissionOf(output)]

\* the dict execute_code returns
ExecResult(how, output) ==
    [success |-> (how = "ok"), output |-> output, submission_result |-> SubmissionOf(output)]

\* correct compared with the text 'true' instead of tested for truth
Verdict_text(sub) ==
    IF NoSubmission(sub) THEN "none"
    ELSE IF SubGet(sub, "correct") = "true" THEN "correct"
    ELSE IF SubGet(sub, "correct") = "False" THEN "incorrect"
    ELSE "unknown"

\* the top-level three-way test on submission_result
Verdict(sub) ==
    IF NoSubmission(sub) THEN "none"
    ELSE IF Truthy(SubGet(sub, "correct")) THEN "correct"
    ELSE IF SubGet(sub, "correct") = "False" THEN "incorrect"
    ELSE "unknown"

\* the time test with >= in place of >
AfterFailure_ge(remaining) ==
    IF remaining >= SKIP_THRESHOLD_SECONDS * 2 THEN "fix" ELSE "fallback"

\* the branch taken when the first execution failed
AfterFailure(remaining) == IF EnoughTime(remaining) THEN "fix" ELSE "fallback"

\* no skip: without time the outcome is always INCORRECT
AfterIncorrect_noskip(remaining, next_url) ==
    IF EnoughTime(remaining) THEN "feedback" ELSE "incorrect"

\* the branch taken when the first verdict is incorrect
AfterIncorrect(remaining, next_url) ==
    IF EnoughTime(remaining) THEN "feedback"
    ELSE IF Truthy(next_url) THEN "skipped"
    ELSE "incorrect"

\* the substitution kept from a retry that ended in error
Substitute_noerror(retry_result, next_url) ==
    IF ~Truthy(retry_result.next_url) /\ Truthy(next_url) /\ retry_result.status # "error"
    THEN [retry_result EXCEPT !.next_url = next_url]
    ELSE retry_result

\* if not retry_result.get('next_url') and next_url: retry_result['next_url'] = next_url
Substitute(retry_result, next_url) ==
    IF ~Truthy(retry_result.next_url) /\ Truthy(next_url)
    THEN [retry_result EXCEPT !.next_url = next_url]
    ELSE retry_result

\* the first verdict's next_url (the local next_url of the incorrect branch)
FirstNextUrl == SubGet(execution_result.submission_result, "next_url")

\* exec raises a BaseException: no handler up to solve_quiz_sequence's caller
\* catches it (every handler on the way is `except Exception`)
ExecuteExit ==
    /\ pc \in {"execute", "fix_execute", "feedback_execute"}
    /\ LET code == IF pc = "execute" THEN solution_code ELSE retry_code
       IN /\ <<"exit", <<>>>> \in Runs(code)
          /\ trace' = Append(trace, ExecEv(code, "exit", EmptySubmission))
    /\ pc' = "escaped"
    /\ UNCHANGED <<initial_url, current_url, quiz_number, stats, result, elapsed, question_data,
                   solution_code, execution_result, retry_code>>

\* first execution, success False
ExecuteFail ==
    /\ pc = "execute"
    /\ \E t \in Later(elapsed), run \in Runs(solution_code) :
        /\ run[1] = "raise"
        /\ LET res == ExecResult(run[1], run[2])
               rem == Remaining(t)
               ex == ExecEv(solution_code, run[1], res.submission_result)
               dec == DecideEv("exec_failed", rem, AfterFailure(rem))
           IN /\ execution_result' = res
              /\ IF AfterFailure(rem) = "fix"
                 THEN \* retry_with_fix reads the clock again
                      \E t2 \in NotBefore(t) :
                        /\ elapsed' = t2
                        /\ IF TooLate(Remaining(t2))
                           THEN /\ trace' = trace \o <<ex, dec,
                                           DecideEv("fix_entry", Remaining(t2), "give_up")>>
                                /\ Return(Outcome("error", None))
                           ELSE /\ trace' = trace \o <<ex, dec,
                                           DecideEv("fix_entry", Remaining(t2), "go")>>
                                /\ pc' = "fix_generate"
                                /\ UNCHANGED result
                 ELSE /\ elapsed' = t
                      /\ trace' = trace \o <<ex, dec>>
                      /\ pc' = "fallback"
                      /\ UNCHANGED result
    /\ UNCHANGED <<initial_url, current_url, quiz_number, stats, question_data, solution_code, retry_code>>

\* first execution, success True
ExecuteOk ==
    /\ pc = "execute"
    /\ \E run \in Runs(solution_code) :
        /\ run[1] = "ok"
        /\ LET res == ExecResult(run[1], run[2])
               sub == res.submission_result
               next_url == SubGet(sub, "next_url")
               ex == ExecEv(solution_code, run[1], sub)
           IN /\ execution_result' = res
              /\ CASE Verdict(sub) = "none" ->
                        /\ trace' = Append(trace, ex)
                        /\ pc' = "fallback"
                        /\ UNCHANGED <<result, elapsed>>
                   [] Verdict(sub) = "correct" ->
                        /\ trace' = Append(trace, ex)
                        /\ Return(Outcome("correct", next_url))
                        /\ UNCHANGED elapsed
                   [] Verdict(sub) = "incorrect" ->
                        \E t \in Later(elapsed) :
                          LET rem == Remaining(t)
                              dec == DecideEv("incorrect", rem, AfterIncorrect(rem, next_url))
                          IN CASE AfterIncorrect(rem, next_url) = "feedback" ->
                                   \* retry_with_feedback reads the clock again
                                   \E t2 \in NotBefore(t) :
                                     /\ elapsed' = t2
                                     /\ IF TooLate(Remaining(t2))
                                        THEN /\ trace' = trace \o <<ex, dec,
                                                  DecideEv("feedback_entry", Remaining(t2), "give_up")>>
                                             /\ Return(Substitute(Outcome("incorrect", None), next_url))
                                        ELSE /\ trace' = trace \o <<ex, dec,
                                                  DecideEv("feedback_entry", Remaining(t2), "go")>>
                                             /\ pc' = "feedback_generate"
                                             /\ UNCHANGED result
                               [] AfterIncorrect(rem, next_url) = "skipped" ->
                                   /\ elapsed' = t
                                   /\ trace' = trace \o <<ex, dec>>
                                   /\ Return(Outcome("skipped", next_url))
                               [] OTHER ->
                                   /\ elapsed' = t
                                   /\ trace' = trace \o <<ex, dec>>
                                   /\ Return(Outcome("incorrect", None))
                   [] OTHER ->
                        /\ trace' = Append(trace, ex)
                        /\ Return(Outcome("error", None))
                        /\ UNCHANGED elapsed
    /\ UNCHANGED <<initial_url, current_url, quiz_number, stats, question_data, solution_code, retry_code>>

\* what the fallback POST can come back with: requests.post raised
\* (submit_fallback returns None), a body that is no JSON, JSON that is no
\* object, or a JSON object with or without a url field
FallbackResponses ==
    {[kind |-> k, url |-> Absent] : k \in {"post_failed", "not_json", "not_object"}}
    \cup {[kind |-> "object", url |-> u] : u \in UrlValues \cup {None}}

\* fallback_payload
FallbackPayload(quiz_url) ==
    [email |-> "STUDENT_EMAIL", secret |-> "STUDENT_SECRET", url |-> quiz_url,
     answer |-> "FAILED"]

\* where requests.post(quiz_url, json=fallback_payload) goes
FallbackTarget(quiz_url) == quiz_url

\* the response's url field ignored
FallbackOutcome_nourl(resp) ==
    IF resp.kind = "object"
    THEN Outcome("incorrect", None)
    ELSE Outcome("error", None)

\* try: data = fallback_resp.json(); next_url = data.get("url", None) ... except: error
FallbackOutcome(resp) ==
    IF resp.kind = "object"
    THEN Outcome("incorrect", Get(resp, "url"))
    ELSE Outcome("error", None)

\* fallback_resp = await self.submit_fallback(quiz_url), and the outcome made of it
SubmitFallback ==
    /\ pc = "fallback"
    /\ \E resp \in FallbackResponses :
        /\ trace' = Append(trace, FallbackEv(FallbackTarget(current_url),
                                             FallbackPayload(current_url), resp))
        /\ Return(FallbackOutcome(resp))
    /\ UNCHANGED <<initial_url, current_url, quiz_number, stats, elapsed, question_data, solution_code,
                   execution_result, retry_code>>

\* how a generator call reports that it has no code: analyze_error_and_retry
\* (mode "fix") re-raises what the model call raised, generate_solution
\* returns None
GeneratorRaises(mode) == mode = "fix"

\* retry_with_fix: fixed_code = await analyze_error_and_retry(...), which re-raises
\* what the model call raises
FixGenerate ==
    /\ pc = "fix_generate"
    /\ \E code \in {None, NextCode} :
        /\ trace' = Append(trace, GenEv("fix", code))
        /\ IF code = None
           THEN /\ Return(Outcome("error", None))
                /\ UNCHANGED retry_code
           ELSE /\ retry_code' = code
                /\ pc' = "fix_execute"
                /\ UNCHANGED result
    /\ UNCHANGED <<initial_url, current_url, quiz_number, stats, elapsed, question_data, solution_code,
                   execution_result>>

\* an incorrect retry with a next_url reported as SKIPPED
RetryOutcome_skip(res, need_verdict) ==
    IF ~res.success THEN Outcome("error", None)
    ELSE IF need_verdict /\ NoSubmission(res.submission_result) THEN Outcome("error", None)
    ELSE IF Truthy(SubGet(res.submission_result, "correct"))
    THEN Outcome("correct", SubGet(res.submission_result, "next_url"))
    ELSE IF Truthy(SubGet(res.submission_result, "next_url"))
    THEN Outcome("skipped", SubGet(res.submission_result, "next_url"))
    ELSE Outcome("incorrect", None)

\* a retry verdict with correct unset reported as ERROR, as the top level does
RetryOutcome_strict(res, need_verdict) ==
    IF ~res.success THEN Outcome("error", None)
    ELSE IF need_verdict /\ NoSubmission(res.submission_result) THEN Outcome("error", None)
    ELSE IF Truthy(SubGet(res.submission_result, "correct"))
    THEN Outcome("correct", SubGet(res.submission_result, "next_url"))
    ELSE IF SubGet(res.submission_result, "correct") = "False"
    THEN Outcome("incorrect", SubGet(res.submission_result, "next_url"))
    ELSE Outcome("error", None)

\* a failed retry execution reported as ERROR with the next_url its output named
RetryOutcome_keepurl(res, need_verdict) ==
    IF ~res.success THEN Outcome("error", SubGet(res.submission_result, "next_url"))
    ELSE IF need_verdict /\ NoSubmission(res.submission_result) THEN Outcome("error", None)
    ELSE IF Truthy(SubGet(res.submission_result, "correct"))
    THEN Outcome("correct", SubGet(res.submission_result, "next_url"))
    ELSE Outcome("incorrect", SubGet(res.submission_result, "next_url"))

\* retry_with_fix / retry_with_feedback: the result made of the retry's execution
RetryOutcome(res, need_verdict) ==
    IF ~res.success THEN Outcome("error", None)
    ELSE IF need_verdict /\ NoSubmission(res.submission_result) THEN Outcome("error", None)
    ELSE IF Truthy(SubGet(res.submission_result, "correct"))
    THEN Outcome("correct", SubGet(res.submission_result, "next_url"))
    ELSE Outcome("incorrect", SubGet(res.submission_result, "next_url"))

\* retry_with_fix: execute_code(fixed_code, quiz_url) and the mapping of its result
FixExecute ==
    /\ pc = "fix_execute"
    /\ \E run \in Runs(retry_code) :
        /\ run[1] # "exit"
        /\ LET res == ExecResult(run[1], run[2])
           IN /\ trace' = Append(trace, ExecEv(retry_code, run[1], res.submission_result))
              /\ Return(RetryOutcome(res, FALSE))
    /\ UNCHANGED <<initial_url, current_url, quiz_number, stats, elapsed, question_data, solution_code,
                   execution_result, retry_code>>

\* retry_with_feedback: generate_solution with the reason, the failed code and its
\* output; generate_solution returns None when the model call fails
FeedbackGenerate ==
    /\ pc = "feedback_generate"
    /\ \E code \in {None, NextCode} :
        /\ retry_code' = code
        /\ trace' = Append(trace, GenEv("feedback", code))
        /\ pc' = "feedback_execute"
    /\ UNCHANGED <<initial_url, current_url, quiz_number, stats, result, elapsed, question_data,
                   solution_code, execution_result>>

\* a failed feedback retry handed on to the fix retry
FeedbackExecute_again ==
    /\ pc = "feedback_execute"
    /\ \E run \in Runs(retry_code) :
        /\ run[1] # "exit"
        /\ LET res == ExecResult(run[1], run[2])
           IN /\ trace' = Append(trace, ExecEv(retry_code, run[1], res.submission_result))
              /\ IF res.success
                 THEN Return(Substitute(RetryOutcome(res, TRUE), FirstNextUrl))
                 ELSE pc' = "fix_generate" /\ UNCHANGED result
    /\ UNCHANGED <<initial_url, current_url, quiz_number, stats, elapsed, question_data, solution_code,
                   execution_result, retry_code>>

\* retry_with_feedback: execute_code(retry_code, quiz_url), the mapping of its
\* result, and the caller's substitution of the first verdict's next_url
FeedbackExecute ==
    /\ pc = "feedback_execute"
    /\ \E run \in Runs(retry_code) :
        /\ run[1] # "exit"
        /\ LET res == ExecResult(run[1], run[2])
           IN /\ trace' = Append(trace, ExecEv(retry_code, run[1], res.submission_result))
              /\ Return(Substitute(RetryOutcome(res, TRUE), FirstNextUrl))
    /\ UNCHANGED <<initial_url, current_url, quiz_number, stats, elapsed, question_data, solution_code,
                   execution_result, retry_code>>

allvars == <<vars, pvars, bvars, xvars>>

\* the sequence controller is not running
ControllerOff ==
    /\ pc = "off"
    /\ initial_url = ""
    /\ current_url = ""
    /\ quiz_number = 1
    /\ stats = [total |-> 0, correct |-> 0, incorrect |-> 0, skipped |-> 0, errors |-> 0]
    /\ result = Outcome("none", None)
    /\ elapsed = 0
    /\ question_data = None
    /\ solution_code = None
    /\ execution_result = NoExecution
    /\ retry_code = None
    /\ trace = <<>>

\* the steps of the sequence controller leave the other machines alone
OnlyController == UNCHANGED <<pvars, bvars, xvars>>

Next ==
    \/ StartQuestion /\ OnlyController
    \/ LoopExit /\ OnlyController
    \/ Advance /\ OnlyController
    \/ FetchOk /\ OnlyController
    \/ FetchFail /\ OnlyController
    \/ Generate /\ OnlyController
    \/ Regenerate /\ OnlyController
    \/ ExecuteExit /\ OnlyController
    \/ ExecuteFail /\ OnlyController
    \/ ExecuteOk /\ OnlyController
    \/ SubmitFallback /\ OnlyController
    \/ FixGenerate /\ OnlyController
    \/ FixExecute /\ OnlyController
    \/ FeedbackGenerate /\ OnlyController
    \/ FeedbackExecute /\ OnlyController

Spec == Init /\ [][Next]_allvars

\* every collaborator call that is awaited comes back, so the task goes on
\* (every step of the controller moves pc)
SpecLive == Init /\ [][Next]_allvars /\ WF_pc(Next)

(* ---------------- execute_code and _parse_submission_result, step by step ---------------- *)
\* items an output is made of at most (the captured text, in order)
MaxItems == 3

\* blobs the executed programs may print
JFalse == MkBlob("json", "False", "u1", Absent, "r")
JTrue == MkBlob("json", "True", Absent, Absent, Absent)
JNull == MkBlob("json", "None", "u1", Absent, Absent)
JUrlOnly == MkBlob("json", Absent, "u2", Absent, "r")
JEscaped == [MkBlob("json", "yes", "u2", Absent, Absent) EXCEPT !.esc = TRUE]
JReasonQuoted == [MkBlob("json", Absent, Absent, "u1", "r") EXCEPT !.quoted = TRUE]
JEmpty == MkBlob("json", Absent, Absent, Absent, Absent)
PFalse == MkBlob("py", "False", Absent, "u2", Absent)
PSet == MkBlob("pyset", "True", Absent, Absent, Absent)
BadQuoted == MkBlob("bad", "True", "u2", Absent, Absent)
BadNested == [MkBlob("bad", "True", "u2", Absent, Absent) EXCEPT !.quoted = FALSE]
JEmptyNext == MkBlob("json", "False", Absent, "", "r")

ParserItems ==
    { TextItem, StatusItem("200"), StatusItem("404"), StatusItem("huge") }
    \cup {ResponseItem(b) : b \in {JFalse, JNull, JUrlOnly, JEscaped, JEmpty, JEmptyNext, PFalse, PSet,
                                BadNested}}
    \cup {BlobItem(b) : b \in {JTrue, JReasonQuoted, PFalse, PSet, BadQuoted}}

\* the captured outputs: every sequence of at most MaxItems items
ParserOutputs == UNION {[1..n -> ParserItems] : n \in 0..MaxItems}

\* a handler that takes only json.JSONDecodeError
OuterHandler_narrow(exc) == IF exc = "JSONDecodeError" THEN "except" ELSE "raised"

\* where an exception raised inside the parser's try goes: `except Exception`
\* takes every exception the three steps can raise
OuterHandler(exc) == "except"

\* the verdict stored only after a successful run
SetSubmission_onsuccess(res, sub) ==
    IF res.success
    THEN [res EXCEPT !.submission_is_none = FALSE, !.submission_result = sub]
    ELSE res

\* a parsed submission stored in result['submission_result']
SetSubmission(res, sub) ==
    [res EXCEPT !.submission_is_none = FALSE, !.submission_result = sub]

\* _parse_submission_result(output) is called on its own
ParseCall ==
    /\ parse_pc = "idle"
    /\ \E output \in ParserOutputs : captured_output' = output
    /\ submission' = NewSubmission
    /\ parse_pc' = "status"
    /\ UNCHANGED <<exec_how, exec_result, svars>>

\* step 1: status code
ParseStatusStep ==
    /\ parse_pc = "status"
    /\ IF StatusRaises(captured_output)
       THEN /\ parse_pc' = OuterHandler("ValueError")
            /\ UNCHANGED submission
       ELSE /\ submission' = ParseStatus(captured_output, submission)
            /\ parse_pc' = "response"
    /\ UNCHANGED <<captured_output, exec_how, exec_result, svars>>

\* step 2: labelled response body
ParseResponseStep ==
    /\ parse_pc = "response"
    /\ LET r == ParseResponse(captured_output, submission)
       IN /\ submission' = r[1]
          /\ parse_pc' = IF r[2] THEN OuterHandler("AttributeError") ELSE "scavenge"
    /\ UNCHANGED <<captured_output, exec_how, exec_result, svars>>

\* step 3: the scavenger, when correct is still None
ScavengeStep ==
    /\ parse_pc = "scavenge"
    /\ IF ScavengerRuns(submission)
       THEN /\ submission' = Scavenge(captured_output, 1, submission)
            /\ parse_pc' = IF ScavengeRaises(captured_output, 1)
                           THEN OuterHandler("AttributeError") ELSE "return"
       ELSE /\ parse_pc' = "return"
            /\ UNCHANGED submission
    /\ UNCHANGED <<captured_output, exec_how, exec_result, svars>>

\* except Exception as e: logger.error(...)
ParseExcept ==
    /\ parse_pc = "except"
    /\ parse_pc' = "return"
    /\ UNCHANGED <<captured_output, submission, exec_how, exec_result, svars>>

\* return submission: to the caller of the parser, or into execute_code's
\* finally block, after which execute_code returns or the pending
\* BaseException goes on
ParseReturn ==
    /\ parse_pc = "return"
    /\ IF exec_how = "none"
       THEN /\ parse_pc' = "parsed"
            /\ UNCHANGED exec_result
       ELSE /\ exec_result' = SetSubmission(exec_result, submission)
            /\ parse_pc' = IF exec_how = "exit" THEN "exec_escaped" ELSE "exec_returned"
    /\ UNCHANGED <<captured_output, submission, exec_how, svars>>

\* execute_code(code, quiz_url): old_stdout = sys.stdout; sys.stdout =
\* captured_output = StringIO(); result initialised. The program handed over
\* will end in one of the three ways
ExecCall ==
    /\ parse_pc = "idle"
    /\ \E how \in {"ok", "raise", "exit"} : exec_how' = how
    /\ old_stdout' = stdout
    /\ stdout' = "capture"
    /\ captured_output' = <<>>
    /\ printed' = <<>>
    /\ exec_result' = InitialResult
    /\ parse_pc' = "exec_try"
    /\ UNCHANGED submission

\* print(...) of the executed program writes to whatever sys.stdout is bound to
WriteTo(stream, buf, text) == IF stream = "capture" THEN buf \o text ELSE buf

\* try: exec(code, execution_env); result['success'] = True. The program
\* prints `output` and then returns, raises, or exits with a BaseException
ExecTry ==
    /\ parse_pc = "exec_try"
    /\ \E output \in ParserOutputs :
        /\ printed' = printed \o output
        /\ captured_output' = WriteTo(stdout, captured_output, output)
    /\ UNCHANGED <<stdout, old_stdout>>
    /\ CASE exec_how = "ok" ->
              /\ exec_result' = [exec_result EXCEPT !.success = TRUE]
              /\ parse_pc' = "exec_finally"
         [] exec_how = "raise" ->
              /\ parse_pc' = "exec_except"
              /\ UNCHANGED exec_result
         [] OTHER ->
              /\ parse_pc' = "exec_finally"
              /\ UNCHANGED exec_result
    /\ UNCHANGED <<submission, exec_how>>

\* except Exception as e: result['error'] = error_msg
ExecExcept ==
    /\ parse_pc = "exec_except"
    /\ exec_result' = [exec_result EXCEPT !.error_is_none = FALSE]
    /\ parse_pc' = "exec_finally"
    /\ UNCHANGED <<captured_output, submission, exec_how, svars>>

\* the stream put back after the try body only when execute_code goes on to
\* return; a BaseException on its way out leaves the StringIO in place
ExecFinally_onreturn ==
    /\ parse_pc = "exec_finally"
    /\ IF captured_output # <<>>
       THEN /\ exec_result' = [exec_result EXCEPT !.output_is_none = FALSE]
            /\ submission' = NewSubmission
            /\ parse_pc' = "status"
       ELSE /\ exec_result' = SetSubmission([exec_result EXCEPT !.output_is_none = FALSE],
                                            EmptySubmission)
            /\ parse_pc' = IF exec_how = "exit" THEN "exec_escaped" ELSE "exec_returned"
            /\ UNCHANGED submission
    /\ stdout' = IF exec_how = "exit" THEN stdout ELSE old_stdout
    /\ UNCHANGED <<captured_output, exec_how, old_stdout, printed>>

\* finally: sys.stdout = old_stdout; result['output'] =
\* captured_output.getvalue(); non-empty output is handed to the parser,
\* empty output gives {}
ExecFinally ==
    /\ parse_pc = "exec_finally"
    /\ IF captured_output # <<>>
       THEN /\ exec_result' = [exec_result EXCEPT !.output_is_none = FALSE]
            /\ submission' = NewSubmission
            /\ parse_pc' = "status"
       ELSE /\ exec_result' = SetSubmission([exec_result EXCEPT !.output_is_none = FALSE],
                                            EmptySubmission)
            /\ parse_pc' = IF exec_how = "exit" THEN "exec_escaped" ELSE "exec_returned"
            /\ UNCHANGED submission
    /\ stdout' = old_stdout
    /\ UNCHANGED <<captured_output, exec_how, old_stdout, printed>>

ParserInit ==
    /\ parse_pc = "idle"
    /\ captured_output = <<>>
    /\ submission = NewSubmission
    /\ exec_how = "none"
    /\ exec_result = InitialResult
    /\ stdout = "console"
    /\ old_stdout = "console"
    /\ printed = <<>>
    /\ ControllerOff
    /\ BudgetOff
    /\ ExtraOff

\* the steps of the adapter and the parser leave the other machines alone
OnlyParser == UNCHANGED <<vars, bvars, xvars>>

ParserNext ==
    \/ ParseCall /\ OnlyParser
    \/ ParseStatusStep /\ OnlyParser
    \/ ParseResponseStep /\ OnlyParser
    \/ ScavengeStep /\ OnlyParser
    \/ ParseExcept /\ OnlyParser
    \/ ParseReturn /\ OnlyParser
    \/ ExecCall /\ OnlyParser
    \/ ExecTry /\ OnlyParser
    \/ ExecExcept /\ OnlyParser
    \/ ExecFinally /\ OnlyParser

SpecParser == ParserInit /\ [][ParserNext]_allvars

(* ---------------- the budget clock: two chains, one question ---------------- *)
\* questions a chain has processed before the one under watch, at most
MaxEarlier == 2

\* instants (seconds) at which a chain may be started
SequenceStarts == {0, 1000}

\* how long an earlier question may have taken (seconds)
EarlierDurations == {20, 400}

\* the budget measured from sequence_start_time
QuestionStartTime_sequence(seq_start, t) == seq_start

\* question_start_time = datetime.now(), at the top of each iteration
QuestionStartTime(seq_start, t) == t

\* elapsed = (datetime.now() - start_time).total_seconds();
\* remaining = settings.QUIZ_TIMEOUT_SECONDS - elapsed
RemainingAt(start_time, t) == QUIZ_TIMEOUT_SECONDS - (t - start_time)

\* the branch a decision point takes on its reading of remaining
Branch(at, remaining, next_url) ==
    CASE at = "no_code" -> AfterNoCode(remaining)
      [] at = "exec_failed" -> AfterFailure(remaining)
      [] at = "incorrect" -> AfterIncorrect(remaining, next_url)
      [] OTHER -> IF TooLate(remaining) THEN "give_up" ELSE "go"

\* the decision a chain takes `off` seconds after it began the question
DecisionOf(c, at, off, next_url) ==
    LET rem == RemainingAt(question_start_time[c], began[c] + off)
    IN [at |-> at, off |-> off, remaining |-> rem, took |-> Branch(at, rem, next_url)]

\* sequence_start_time = datetime.now(): the chains start at their own instants
BudgetBegin ==
    /\ budget_pc = "init"
    /\ \E s \in [Chains -> SequenceStarts] :
        /\ sequence_start_time' = s
        /\ now' = s
    /\ budget_pc' = "between"
    /\ UNCHANGED <<question_start_time, began, earlier, decisions>>

\* an earlier question of the chain, which takes each chain its own time
EarlierQuestion ==
    /\ budget_pc = "between"
    /\ earlier < MaxEarlier
    /\ \E d \in [Chains -> EarlierDurations] :
        /\ question_start_time' =
              [c \in Chains |-> QuestionStartTime(sequence_start_time[c], now[c])]
        /\ now' = [c \in Chains |-> now[c] + d[c]]
    /\ earlier' = earlier + 1
    /\ UNCHANGED <<budget_pc, sequence_start_time, began, decisions>>

\* the question under watch begins in both chains
QuestionBegins ==
    /\ budget_pc = "between"
    /\ question_start_time' =
          [c \in Chains |-> QuestionStartTime(sequence_start_time[c], now[c])]
    /\ began' = now
    /\ decisions' = [c \in Chains |-> <<>>]
    /\ budget_pc' = "question"
    /\ UNCHANGED <<sequence_start_time, now, earlier>>

\* both chains reach the same decision point the same time after they began
\* the question, and each takes its branch on its own reading of remaining
Decide ==
    /\ budget_pc = "question"
    /\ \E at \in {"no_code", "exec_failed", "incorrect"}, off \in Times,
          next_url \in {None, "u2"} :
        /\ at # "incorrect" => next_url = None
        /\ now' = [c \in Chains |-> began[c] + off]
        /\ decisions' = [c \in Chains |->
                            Append(decisions[c], DecisionOf(c, at, off, next_url))]
        /\ budget_pc' =
              IF \E c \in Chains : DecisionOf(c, at, off, next_url).took \in {"fix", "feedback"}
              THEN "entry" ELSE "over"
    /\ UNCHANGED <<sequence_start_time, question_start_time, began, earlier>>

\* the entry check of the retry helper, in the chains that called it
EntryCheck ==
    /\ budget_pc = "entry"
    /\ \E off \in Times :
        /\ \A c \in Chains : began[c] + off >= now[c]
        /\ now' = [c \in Chains |-> began[c] + off]
        /\ decisions' = [c \in Chains |->
              LET last == decisions[c][Len(decisions[c])]
              IN IF last.took \in {"fix", "feedback"}
                 THEN Append(decisions[c], DecisionOf(c, last.took, off, None))
                 ELSE decisions[c]]
    /\ budget_pc' = "over"
    /\ UNCHANGED <<sequence_start_time, question_start_time, began, earlier>>

BudgetInit ==
    /\ budget_pc = "init"
    /\ sequence_start_time = [c \in Chains |-> 0]
    /\ question_start_time = [c \in Chains |-> 0]
    /\ now = [c \in Chains |-> 0]
    /\ began = [c \in Chains |-> 0]
    /\ earlier = 0
    /\ decisions = [c \in Chains |-> <<>>]
    /\ ControllerOff
    /\ ParserOff
    /\ ExtraOff

\* the steps of the budget clocks leave the other machines alone
OnlyBudget == UNCHANGED <<vars, pvars, xvars>>

BudgetNext ==
    \/ BudgetBegin /\ OnlyBudget
    \/ EarlierQuestion /\ OnlyBudget
    \/ QuestionBegins /\ OnlyBudget
    \/ Decide /\ OnlyBudget
    \/ EntryCheck /\ OnlyBudget

SpecBudget == BudgetInit /\ [][BudgetNext]_allvars

(* ---------------- the trigger endpoint and the chains on one event loop ----------------
   What happens inside a question is the sequence controller's business
   above; here a chain is followed from one suspension point to the next. *)

\* settings.STUDENT_SECRET, settings.STUDENT_EMAIL
STUDENT_SECRET == "s3cret"
STUDENT_EMAIL == "student"

\* the bodies a POST / can carry: not JSON, JSON that is no object, an object
\* QuizRequest rejects, and an object with email, secret and url
TriggerRequests ==
    {[payload |-> p, secret |-> "", email |-> "", url |-> ""] : p \in {"badjson", "nondict", "invalid"}}
    \cup {[payload |-> "valid", secret |-> s, email |-> e, url |-> "u1"] :
            s \in {STUDENT_SECRET, "guess"}, e \in {STUDENT_EMAIL, "someone"}}

\* the secret comparison left out
Status_nosecret(req) ==
    IF req.payload = "badjson" THEN 400
    ELSE IF req.payload = "nondict" THEN 500
    ELSE IF req.payload = "invalid" THEN 400
    ELSE 200

\* handle_quiz: the status the request ends with. request.json() raising gives
\* 400; QuizRequest(**payload) gives 400 on ValidationError and, for a payload
\* that is no mapping, a TypeError the last handler turns into 500; a secret
\* other than settings.STUDENT_SECRET gives 403; an email other than
\* settings.STUDENT_EMAIL is only logged
Status(req) ==
    IF req.payload = "badjson" THEN 400
    ELSE IF req.payload = "nondict" THEN 500
    ELSE IF req.payload = "invalid" THEN 400
    ELSE IF req.secret # STUDENT_SECRET THEN 403
    ELSE 200

\* every call gives the thread back to the event loop
YieldsAt_exec(point) == point \in {"json", "fetch", "generate", "exec_network"}

\* creating the task gives the thread back to the event loop
YieldsAt_spawn(point) == point \in {"json", "fetch", "generate", "create_task"}

\* the points where the running coroutine gives the thread back to the event
\* loop: await request.json(), the awaits on the browser, await
\* generate_content_async. asyncio.create_task only schedules, and exec(code,
\* env) with the blocking requests calls of the generated program runs inside
\* execute_code without an await
YieldsAt(point) == point \in {"json", "fetch", "generate"}

\* who has the thread after coroutine co reached the point
HolderAt(point, co) == IF YieldsAt(point) THEN Free ELSE co

\* a new POST / arrives; handle_quiz reads start_time and awaits request.json()
Arrive(req) ==
    /\ holder = Free
    /\ Len(inbox) + 1 \in RequestIds
    /\ inbox' = Append(inbox, req)
    /\ handler_pc' = Append(handler_pc, "json")
    /\ response' = Append(response, 0)
    /\ holder' = HolderAt("json", Handler(Len(inbox) + 1))
    /\ actor' = Handler(Len(inbox) + 1)
    /\ UNCHANGED <<chain, sys_stdout, buffer, clock>>

\* handle_quiz after request.json(): a request that is not accepted ends
\* with HTTPException(400 / 403 / 500)
HandleReject(r) ==
    /\ holder = Free
    /\ r \in 1..Len(inbox)
    /\ handler_pc[r] = "json"
    /\ Status(inbox[r]) # 200
    /\ response' = [response EXCEPT ![r] = Status(inbox[r])]
    /\ handler_pc' = [handler_pc EXCEPT ![r] = "returned"]
    /\ actor' = Handler(r)
    /\ UNCHANGED <<inbox, chain, holder, sys_stdout, buffer, clock>>

\* handle_quiz after request.json(), accepted request:
\* asyncio.create_task(solve_quiz_async(url, email, secret, start_time))
HandleAccept(r) ==
    /\ holder = Free
    /\ r \in 1..Len(inbox)
    /\ handler_pc[r] = "json"
    /\ Status(inbox[r]) = 200
    /\ chain' = [chain EXCEPT ![r] = [NoChain EXCEPT !.pc = "created", !.current_url = inbox[r].url]]
    /\ handler_pc' = [handler_pc EXCEPT ![r] = "spawned"]
    /\ holder' = HolderAt("create_task", Handler(r))
    /\ actor' = Handler(r)
    /\ UNCHANGED <<inbox, response, sys_stdout, buffer, clock>>

\* return JSONResponse(status_code=200, ...)
Respond(r) ==
    /\ holder \in {Free, Handler(r)}
    /\ r \in 1..Len(inbox)
    /\ handler_pc[r] = "spawned"
    /\ response' = [response EXCEPT ![r] = 200]
    /\ handler_pc' = [handler_pc EXCEPT ![r] = "returned"]
    /\ holder' = Free
    /\ actor' = Handler(r)
    /\ UNCHANGED <<inbox, chain, sys_stdout, buffer, clock>>

\* the outcomes a question can end with on this chain: the quiz served here
\* has the pages u1 and u2, and only u1 names a next_url
QuestionOutcomes(ch) ==
    {Outcome("correct", None), Outcome("incorrect", None), Outcome("error", None)}
    \cup (IF ch.current_url = "u1" THEN {Outcome("correct", "u2")} ELSE {})

\* solve_quiz_sequence after solve_single_quiz returned: the tally, then the
\* next question up to its page fetch, or the end of the sequence
QuestionEnds(ch, outcome, t) ==
    LET tallied == [ch EXCEPT !.stats = Tally(ch.stats, outcome.status)]
    IN IF Truthy(outcome.next_url)
       THEN [tallied EXCEPT !.current_url = outcome.next_url, !.quiz_number = @ + 1,
                            !.question_start_time = t, !.retried = FALSE, !.pc = "fetch"]
       ELSE [tallied EXCEPT !.pc = "done"]

\* the task's first step: solve_quiz_async builds its QuizHandler,
\* solve_quiz_sequence starts the first question and awaits the page
ChainStart(c) ==
    /\ holder = Free
    /\ chain[c].pc = "created"
    /\ chain' = [chain EXCEPT ![c] = [@ EXCEPT !.question_start_time = clock, !.pc = "fetch"]]
    /\ holder' = HolderAt("fetch", ChainTask(c))
    /\ actor' = ChainTask(c)
    /\ UNCHANGED <<inbox, handler_pc, response, sys_stdout, buffer, clock>>

\* the page fetch completes, some time after it began: on success the
\* generator is called; on failure the fallback answer decides the outcome
FetchDone(c, ok, outcome) ==
    /\ holder = Free
    /\ chain[c].pc = "fetch"
    /\ outcome \in QuestionOutcomes(chain[c])
    /\ ~ok => outcome.status \in {"incorrect", "error"}
    /\ clock' = clock + 1
    /\ chain' = [chain EXCEPT ![c] =
                    IF ok THEN [@ EXCEPT !.pc = "generate"] ELSE QuestionEnds(@, outcome, clock')]
    /\ holder' = HolderAt(IF ok THEN "generate" ELSE "fetch", ChainTask(c))
    /\ actor' = ChainTask(c)
    /\ UNCHANGED <<inbox, handler_pc, response, sys_stdout, buffer>>

\* the generator call completes. Without code the question ends in error;
\* with code execute_code starts: old_stdout = sys.stdout; sys.stdout =
\* captured_output = StringIO(); exec(code, execution_env), and the program
\* runs up to its network call
GenerateDone(c, has_code) ==
    /\ holder = Free
    /\ chain[c].pc = "generate"
    /\ IF has_code
       THEN /\ chain' = [chain EXCEPT ![c] = [@ EXCEPT !.old_stdout = sys_stdout, !.pc = "exec_network"]]
            /\ sys_stdout' = c
            /\ buffer' = [buffer EXCEPT ![c] = <<>>]
            /\ holder' = HolderAt("exec_network", ChainTask(c))
       ELSE /\ chain' = [chain EXCEPT ![c] = QuestionEnds(@, Outcome("error", None), clock)]
            /\ holder' = Free
            /\ UNCHANGED <<sys_stdout, buffer>>
    /\ actor' = ChainTask(c)
    /\ UNCHANGED <<inbox, handler_pc, response, clock>>

\* print(...) of the executed program: the text goes to whatever sys.stdout is
PrintTo(buf, stream, who) ==
    IF stream = 0 THEN buf ELSE [buf EXCEPT ![stream] = Append(@, who)]

\* the program's network call returns; it prints the response and ends or
\* raises. finally: sys.stdout = old_stdout; result['output'] =
\* captured_output.getvalue(). Then the outcome, or one retry through the
\* generator
ExecDone(c, how, outcome, retry) ==
    /\ holder \in {Free, ChainTask(c)}
    /\ chain[c].pc = "exec_network"
    /\ outcome \in QuestionOutcomes(chain[c])
    /\ how = "raise" => outcome.status = "error"
    /\ retry => ~chain[c].retried /\ outcome.status \in {"incorrect", "error"}
    /\ buffer' = PrintTo(buffer, sys_stdout, c)
    /\ sys_stdout' = chain[c].old_stdout
    /\ LET ran == [chain[c] EXCEPT !.execution_result = [success |-> how = "ok", output |-> buffer'[c]]]
       IN chain' = [chain EXCEPT ![c] =
                       IF retry THEN [ran EXCEPT !.retried = TRUE, !.pc = "generate"]
                       ELSE QuestionEnds(ran, outcome, clock)]
    /\ holder' = Free
    /\ actor' = ChainTask(c)
    /\ UNCHANGED <<inbox, handler_pc, response, clock>>

ExtraInit ==
    /\ ExtraOff
    /\ ControllerOff
    /\ ParserOff
    /\ BudgetOff

\* the steps of the server leave the other machines alone
OnlyServer ==
    UNCHANGED <<vars, pvars, bvars, engine_pc, acquired, leaked, fetches, exit_how,
                sandbox_pc, heap, env_ref, seen, runs, statements>>

ServerNext ==
    \/ (\E req \in TriggerRequests : Arrive(req)) /\ OnlyServer
    \/ (\E r \in RequestIds : HandleReject(r)) /\ OnlyServer
    \/ (\E r \in RequestIds : HandleAccept(r)) /\ OnlyServer
    \/ (\E r \in RequestIds : Respond(r)) /\ OnlyServer
    \/ (\E c \in RequestIds : ChainStart(c)) /\ OnlyServer
    \/ (\E c \in RequestIds, ok \in BOOLEAN : \E o \in QuestionOutcomes(chain[c]) : FetchDone(c, ok, o))
          /\ OnlyServer
    \/ (\E c \in RequestIds, has_code \in BOOLEAN : GenerateDone(c, has_code)) /\ OnlyServer
    \/ (\E c \in RequestIds, how \in {"ok", "raise"}, retry \in BOOLEAN :
           \E o \in QuestionOutcomes(chain[c]) : ExecDone(c, how, o, retry)) /\ OnlyServer

SpecServer == ExtraInit /\ [][ServerNext]_allvars

(* ---------------- the page fetch step and its browser resources ---------------- *)

MaxFetches == 3

\* the awaits of one fetch step, in program order: start(), visit_quiz_page(), close()
FetchSteps ==
    <<"start_playwright", "start_browser", "start_context", "new_page", "load",
      "close_context", "close_browser", "close_playwright">>

\* the step after pc
StepAfter(p) == FetchSteps[(CHOOSE i \in 1..Len(FetchSteps) : FetchSteps[i] = p) + 1]

\* what a start step acquires
Acquires(p) ==
    CASE p = "start_playwright" -> "playwright"
      [] p = "start_browser" -> "browser"
      [] p = "start_context" -> "context"
      [] p = "new_page" -> "page"

\* what a close step that succeeds releases: a context takes its pages with
\* it, a browser its contexts, the driver its browsers
Closes(p) ==
    CASE p = "close_context" -> {"context", "page"}
      [] p = "close_browser" -> {"browser", "context", "page"}
      [] p = "close_playwright" -> {"playwright", "browser", "context", "page"}

\* control leaves the fetch step with what is still acquired
LeaveFetch(how, still) ==
    /\ engine_pc' = "idle"
    /\ exit_how' = how
    /\ leaked' = leaked + Cardinality(still)
    /\ acquired' = {}
    /\ fetches' = fetches + 1

\* async with BrowserEngine() as browser: __init__, then __aenter__ calls start()
Enter ==
    /\ engine_pc = "idle"
    /\ fetches < MaxFetches
    /\ engine_pc' = "start_playwright"
    /\ exit_how' = "none"
    /\ UNCHANGED <<acquired, leaked, fetches>>

\* start(): async_playwright().start(), chromium.launch(), new_context(). A
\* failure is logged and re-raised; __aenter__ has not returned, so
\* __aexit__ is not called
StartStep(ok) ==
    /\ engine_pc \in {"start_playwright", "start_browser", "start_context"}
    /\ IF ok
       THEN /\ acquired' = acquired \cup {Acquires(engine_pc)}
            /\ engine_pc' = StepAfter(engine_pc)
            /\ UNCHANGED <<leaked, fetches, exit_how>>
       ELSE LeaveFetch("raise", acquired)

\* visit_quiz_page: page = await self.context.new_page()
VisitNewPage(ok) ==
    /\ engine_pc = "new_page"
    /\ IF ok
       THEN acquired' = acquired \cup {Acquires(engine_pc)} /\ engine_pc' = "load" /\ exit_how' = exit_how
       ELSE acquired' = acquired /\ engine_pc' = "close_context" /\ exit_how' = "raising"
    /\ UNCHANGED <<leaked, fetches>>

\* visit_quiz_page: goto, wait, content, extraction, then page.close() and the
\* return; a timeout or any other exception is logged and re-raised with the
\* page open. Either way __aexit__ calls close()
VisitLoad(how) ==
    /\ engine_pc = "load"
    /\ acquired' = IF how = "ok" THEN acquired \ {"page"} ELSE acquired
    /\ exit_how' = IF how = "ok" THEN exit_how ELSE "raising"
    /\ engine_pc' = "close_context"
    /\ UNCHANGED <<leaked, fetches>>

\* close(): context.close(), browser.close(), playwright.stop() inside one
\* try; the first that raises is logged and ends close()
CloseStep(ok) ==
    /\ engine_pc \in {"close_context", "close_browser", "close_playwright"}
    /\ LET still == IF ok THEN acquired \ Closes(engine_pc) ELSE acquired
           how == IF exit_how = "raising" THEN "raise" ELSE "return"
       IN IF ok /\ engine_pc # "close_playwright"
          THEN /\ acquired' = still
               /\ engine_pc' = StepAfter(engine_pc)
               /\ UNCHANGED <<leaked, fetches, exit_how>>
          ELSE LeaveFetch(how, still)

\* the steps of a page fetch leave the other machines alone
OnlyBrowser ==
    UNCHANGED <<vars, pvars, bvars, inbox, handler_pc, response, chain, holder, sys_stdout, buffer,
                actor, clock, sandbox_pc, heap, env_ref, seen, runs, statements>>

BrowserNext ==
    \/ Enter /\ OnlyBrowser
    \/ (\E ok \in BOOLEAN : StartStep(ok)) /\ OnlyBrowser
    \/ (\E ok \in BOOLEAN : VisitNewPage(ok)) /\ OnlyBrowser
    \/ (\E how \in {"ok", "timeout", "error", "page_close_fails"} : VisitLoad(how)) /\ OnlyBrowser
    \/ (\E ok \in BOOLEAN : CloseStep(ok)) /\ OnlyBrowser

SpecBrowser == ExtraInit /\ [][BrowserNext]_allvars

(* ---------------- the executor's namespaces ---------------- *)

MaxRuns == 2
MaxStatements == 2

\* execution_env is the registry itself
CopyOf_alias(d) == d

\* dict.copy(): a new dict object with the same bindings, not the one the
\* execution before this one ran against
CopyOf(d) == IF env_ref = "env1" THEN "env2" ELSE "env1"

\* execution_env['STUDENT_EMAIL'], ['STUDENT_SECRET'] = settings...;
\* execution_env['QUIZ_URL'] = quiz_url
Inject(ns, quiz_url) ==
    [ns EXCEPT !["STUDENT_SECRET"] = STUDENT_SECRET, !["QUIZ_URL"] = quiz_url]

\* execute_code up to exec: execution_env = self.execution_globals.copy(),
\* then the injected values
ExecuteBegin(quiz_url) ==
    /\ sandbox_pc = "idle"
    /\ runs < MaxRuns
    /\ LET ref == CopyOf("registry")
           copied == [heap EXCEPT ![ref] = heap["registry"]]
       IN /\ env_ref' = ref
          /\ heap' = [copied EXCEPT ![ref] = Inject(@, quiz_url)]
          /\ seen' = heap'[ref]
    /\ sandbox_pc' = "running"
    /\ statements' = 0
    /\ UNCHANGED runs

\* a top-level statement of the executed program: an assignment binds or
\* rebinds a global name in execution_env, del removes it
ProgramStatement(op, name, value) ==
    /\ sandbox_pc = "running"
    /\ statements < MaxStatements
    /\ op = "del" => heap[env_ref][name] # Absent
    /\ heap' = [heap EXCEPT ![env_ref][name] = IF op = "del" THEN Absent ELSE value]
    /\ statements' = statements + 1
    /\ UNCHANGED <<sandbox_pc, env_ref, seen, runs>>

\* exec returns or raises; execute_code returns and execution_env is dropped
ExecuteEnd ==
    /\ sandbox_pc = "running"
    /\ sandbox_pc' = "idle"
    /\ runs' = runs + 1
    /\ UNCHANGED <<heap, env_ref, seen, statements>>

\* the steps of the executor leave the other machines alone
OnlySandbox ==
    UNCHANGED <<vars, pvars, bvars, inbox, handler_pc, response, chain, holder, sys_stdout, buffer,
                actor, clock, engine_pc, acquired, leaked, fetches, exit_how>>

SandboxNext ==
    \/ (\E u \in URLs : ExecuteBegin(u)) /\ OnlySandbox
    \/ (\E op \in {"bind", "del"}, n \in {"pd", "answer", "QUIZ_URL"}, v \in {"42", "patched"} :
           ProgramStatement(op, n, v)) /\ OnlySandbox
    \/ ExecuteEnd /\ OnlySandbox

SpecSandbox == ExtraInit /\ [][SandboxNext]_allvars

(* ======================= properties ======================= *)
\* indices of the trace's events of one kind
Events(kind) == {i \in 1..Len(trace) : trace[i].ev = kind}

\* indices of the decisions taken at one decision point
DecisionsAt(at) == {i \in Events("decide") : trace[i].at = at}

\* trace[i + 1] exists and is an event of this kind
NextIs(i, kind) == i < Len(trace) /\ trace[i + 1].ev = kind

\* solve_single_quiz has returned and its trace is still the last question's
QuestionOver == pc \in {"returned", "loop", "done"} /\ trace # <<>>

TwiceThreshold == 2 * SKIP_THRESHOLD_SECONDS

\* the first execution of the question, when there is one
FirstExecIx == CHOOSE i \in Events("execute") : \A j \in Events("execute") : i <= j
FirstOk(i) == i \in Events("execute") /\ i = FirstExecIx /\ trace[i].how = "ok"
FirstFailed(i) == i \in Events("execute") /\ i = FirstExecIx /\ trace[i].how = "raise"

(* C1: solve_quiz_sequence follows the chain: the first question is the one at
   initial_url; after an outcome with a non-empty next_url the loop goes on
   with exactly that URL; after an outcome without one it ends; and the loop
   ends in no other way (there is no iteration cap): it is left only after an
   outcome without next_url, or at once when initial_url is empty. *)
C1_ChainStep ==
    /\ (pc = "returned" /\ Truthy(result.next_url))
          => (pc' = "loop" /\ current_url' = result.next_url)
    /\ (pc = "returned" /\ ~Truthy(result.next_url)) => pc' = "done"
    /\ (pc = "loop" /\ pc' = "fetch")
          => /\ current_url' = current_url
             /\ stats.total = 0 => current_url = initial_url
             /\ stats.total > 0 => current_url = result.next_url
    /\ (pc # "done" /\ pc' = "done")
          => \/ pc = "returned" /\ ~Truthy(result.next_url)
             \/ pc = "loop" /\ stats.total = 0 /\ ~Truthy(initial_url)
    /\ (pc = "loop" /\ Truthy(current_url)) => pc' = "fetch"

C1_ChainOrder == [][C1_ChainStep]_vars

C1_Witness ==
    /\ pc = "done"
    /\ stats.total = 2
    /\ initial_url = "u1"
    /\ current_url = "u2"
    /\ ~Truthy(result.next_url)

(* C2: when the first verdict has correct == False, remaining > 2 x threshold
   runs the feedback retry; otherwise nothing more is generated or executed
   and the outcome is SKIPPED with the verdict's next_url when it has one,
   INCORRECT without next_url when it has none. *)
C2_IncorrectBranch ==
    \A i \in Events("execute") :
        (FirstOk(i) /\ Verdict(trace[i].sub) = "incorrect") =>
            /\ NextIs(i, "decide")
            /\ trace[i + 1].at = "incorrect"
            /\ IF trace[i + 1].remaining > TwiceThreshold
               THEN /\ trace[i + 1].took = "feedback"
                    /\ NextIs(i + 1, "decide")
                    /\ trace[i + 2].at = "feedback_entry"
               ELSE /\ Len(trace) = i + 1
                    /\ QuestionOver
                    /\ Events("fallback") = {}
                    /\ IF Truthy(trace[i].sub.next_url)
                       THEN result = Outcome("skipped", trace[i].sub.next_url)
                       ELSE result = Outcome("incorrect", None)

C2_Witness ==
    /\ pc = "returned"
    /\ result = Outcome("skipped", "u2")
    /\ trace[Len(trace)].ev = "decide"
    /\ trace[Len(trace)].at = "incorrect"
    /\ trace[Len(trace)].remaining = 5

(* C3: when the first execution fails, the fix retry is taken exactly when
   remaining > 2 x threshold at that decision (not at remaining = 2 x
   threshold); otherwise the fallback submission is issued and no fix retry
   is made. *)
C3_FailureBranch ==
    \A i \in Events("execute") :
        FirstFailed(i) =>
            /\ NextIs(i, "decide")
            /\ trace[i + 1].at = "exec_failed"
            /\ IF trace[i + 1].remaining > TwiceThreshold
               THEN /\ trace[i + 1].took = "fix"
                    /\ NextIs(i + 1, "decide")
                    /\ trace[i + 2].at = "fix_entry"
               ELSE /\ trace[i + 1].took = "fallback"
                    /\ DecisionsAt("fix_entry") = {}
                    /\ \A g \in Events("generate") : trace[g].mode # "fix"
                    /\ Events("execute") = {i}
                    /\ \/ pc = "fallback" /\ Len(trace) = i + 1
                       \/ NextIs(i + 1, "fallback")

C3_Witness ==
    /\ pc = "fallback"
    /\ trace[Len(trace)].ev = "decide"
    /\ trace[Len(trace)].at = "exec_failed"
    /\ trace[Len(trace)].remaining = TwiceThreshold

(* C4: when the first generation returns no code, remaining > 2 x threshold
   leads to exactly one regeneration, made without feedback, whose code (if
   any) is the code executed next; remaining <= 2 x threshold leads to no
   regeneration and to the fallback submission. *)
C4_NoCodeBranch ==
    \A g \in Events("generate") :
        (g = 2 /\ trace[g].code = None) =>
            /\ NextIs(g, "decide")
            /\ trace[g + 1].at = "no_code"
            /\ IF trace[g + 1].remaining > TwiceThreshold
               THEN /\ \/ pc = "regenerate" /\ Len(trace) = g + 1
                       \/ NextIs(g + 1, "generate")
                    /\ NextIs(g + 1, "generate") =>
                         /\ trace[g + 2].mode = "plain"
                         /\ {k \in Events("generate") : trace[k].mode = "plain"} = {g, g + 2}
                         /\ trace[g + 2].code # None =>
                              \/ pc = "execute" /\ solution_code = trace[g + 2].code
                                                /\ Len(trace) = g + 2
                              \/ /\ NextIs(g + 2, "execute")
                                 /\ trace[g + 3].code = trace[g + 2].code
                    /\ Events("fallback") # {} => Events("execute") # {}
               ELSE /\ Events("generate") = {g}
                    /\ Events("execute") = {}
                    /\ \/ pc = "fallback" /\ Len(trace) = g + 1
                       \/ NextIs(g + 1, "fallback")

C4_Witness ==
    /\ pc = "execute"
    /\ Len(trace) = 4
    /\ trace[2].ev = "generate" /\ trace[2].code = None
    /\ trace[3].ev = "decide" /\ trace[3].remaining = TwiceThreshold + 1
    /\ trace[4].ev = "generate" /\ trace[4].code = "code2"
    /\ solution_code = "code2"

(* C5: the fallback submission posts answer "FAILED" with url = the current
   quiz URL to the current quiz URL; a response that is a JSON object makes
   the outcome INCORRECT with next_url = its url field (None when absent),
   a failed POST or a body that is no JSON makes it ERROR with no next_url. *)
C5_Fallback ==
    \A f \in Events("fallback") :
        /\ f = Len(trace)
        /\ pc = "returned" =>
             /\ trace[f].target = current_url
             /\ trace[f].payload.url = current_url
             /\ trace[f].payload.answer = "FAILED"
        /\ QuestionOver
        /\ trace[f].resp.kind = "object" =>
             result = Outcome("incorrect",
                              IF trace[f].resp.url = Absent THEN None ELSE trace[f].resp.url)
        /\ trace[f].resp.kind \in {"post_failed", "not_json"} =>
             result = Outcome("error", None)

C5_Witness ==
    /\ pc = "returned"
    /\ trace[Len(trace)].ev = "fallback"
    /\ trace[Len(trace)].target = current_url
    /\ trace[Len(trace)].resp = [kind |-> "object", url |-> "u2"]
    /\ result = Outcome("incorrect", "u2")

\* the first execution's captured output holds no blob that parses to a mapping
NothingParses(output) ==
    /\ output # <<>>
    /\ \A k \in 1..Len(output) :
          output[k].kind \in {"response", "blob"} => ParseBlob(output[k].blob).kind # "dict"

(* C6 as stated: when the first execution succeeds and there is no verdict at
   all (the output is empty, or non-empty with nothing parseable in it), the
   fallback submission is issued. *)
C6_NoVerdictFallback_Original ==
    \A i \in Events("execute") :
        (FirstOk(i) /\ (execution_result.output = <<>> \/ NothingParses(execution_result.output)))
            => \/ pc = "fallback" /\ Len(trace) = i
               \/ NextIs(i, "fallback")

(* C6 amended: when the first execution succeeds with empty output, the
   fallback submission is issued and its response determines the outcome;
   when the output is non-empty but nothing in it parses, the outcome is
   ERROR with no next_url and no fallback submission is made. *)
C6_EmptyOutputFallback ==
    \A i \in Events("execute") :
        FirstOk(i) =>
            /\ execution_result.output = <<>> =>
                 \/ pc = "fallback" /\ Len(trace) = i
                 \/ /\ NextIs(i, "fallback")
                    /\ Len(trace) = i + 1
                    /\ QuestionOver
                    /\ result.status = (IF trace[i + 1].resp.kind = "object"
                                        THEN "incorrect" ELSE "error")
            /\ NothingParses(execution_result.output) =>
                 /\ Len(trace) = i
                 /\ QuestionOver
                 /\ Events("fallback") = {}
                 /\ result = Outcome("error", None)

C6_Witness ==
    /\ pc = "returned"
    /\ Events("execute") # {}
    /\ FirstOk(Len(trace))
    /\ execution_result.output = <<TextItem>>
    /\ result = Outcome("error", None)

(* C7 as stated: when the first execution succeeds and the verdict is present
   but its correct is neither True nor False, the outcome is ERROR with no
   next_url, and neither a retry nor a fallback submission is made. *)
C7_Indeterminate_Original ==
    \A i \in Events("execute") :
        (/\ FirstOk(i)
         /\ ~NoSubmission(trace[i].sub)
         /\ trace[i].sub.correct \notin {"True", "False"})
            => /\ Len(trace) = i
               /\ QuestionOver
               /\ result = Outcome("error", None)

(* C8: when the first execution succeeds and the verdict has correct == True,
   the outcome is CORRECT with the verdict's next_url, whatever the clock
   says, and neither a retry nor a fallback submission is made. *)
C8_CorrectBranch ==
    \A i \in Events("execute") :
        (FirstOk(i) /\ ~NoSubmission(trace[i].sub) /\ trace[i].sub.correct = "True")
            => /\ Len(trace) = i
               /\ QuestionOver
               /\ result = Outcome("correct", trace[i].sub.next_url)

C8_Witness ==
    /\ pc = "returned"
    /\ elapsed = QUIZ_TIMEOUT_SECONDS - TwiceThreshold - 1
    /\ trace[Len(trace)].ev = "execute"
    /\ trace[Len(trace)].sub.correct = "True"
    /\ result = Outcome("correct", "u2")

(* C9: when the page fetch throws, the outcome is ERROR with no next_url, no
   generator call, execution or fallback submission is made for the question,
   and the chain stops. *)
C9_FetchFailure ==
    \A i \in Events("fetch") :
        ~trace[i].ok =>
            /\ Len(trace) = 1
            /\ pc \in {"returned", "done"}
            /\ result = Outcome("error", None)

C9_Witness ==
    /\ pc = "done"
    /\ trace = <<FetchEv(FALSE)>>
    /\ result = Outcome("error", None)
    /\ stats.errors = 1

(* C10 as stated: no exception of the page fetcher, the generator, the
   executed code, the parser or the fallback POST leaves solve_quiz_sequence. *)
C10_NoEscape_Original == pc # "escaped"

\* the generate and execute steps of the trace after position i
StepsAfter(i) == {j \in Events("generate") \cup Events("execute") : j > i}

\* the retry helpers' own clock readings
EntryDecisions == DecisionsAt("fix_entry") \cup DecisionsAt("feedback_entry")

\* a generate or execute step is pending
StepPending ==
    pc \in {"generate", "regenerate", "execute", "fix_generate", "fix_execute",
            "feedback_generate", "feedback_execute"}

(* C11 as stated: within one question remaining strictly decreases from each
   decision point to the next. *)
C11_StrictDecrease_Original ==
    \A i, j \in Events("decide") :
        i < j => trace[j].remaining < trace[i].remaining

(* C11: within one question remaining never increases from one decision point
   to the next, and strictly decreases up to every decision point other than
   the entry check of a retry helper (that check reads the clock right after
   the branch decision, with no await in between); once a decision point has
   read remaining < SKIP_THRESHOLD_SECONDS, no generate or execute step
   follows in that question. *)
C11_BudgetMonotone ==
    /\ \A i, j \in Events("decide") :
          i < j => /\ trace[j].remaining <= trace[i].remaining
                   /\ j \notin EntryDecisions => trace[j].remaining < trace[i].remaining
    /\ \A i \in Events("decide") :
          trace[i].remaining < SKIP_THRESHOLD_SECONDS
              => StepsAfter(i) = {} /\ ~StepPending

C11_Witness ==
    /\ QuestionOver
    /\ \E i \in Events("decide"), j \in EntryDecisions :
          /\ j = i + 1
          /\ trace[i].remaining > TwiceThreshold
          /\ trace[j].remaining < SKIP_THRESHOLD_SECONDS
          /\ trace[j].took = "give_up"
          /\ Len(trace) = j

\* the mode of the generator call each retry helper makes
HelperMode(at) == IF at = "fix_entry" THEN "fix" ELSE "feedback"

(* C13: retry_with_fix and retry_with_feedback are single-shot: a question
   enters at most one retry helper, at most once; after the helper's entry
   check come at most one generator call (the helper's own) and then at most
   one execution, and no fallback submission, no further decision and no
   further helper call; the status of the question's outcome after a helper
   is correct, incorrect or error, never skipped. *)
C13_SingleShot ==
    /\ Cardinality(EntryDecisions) <= 1
    /\ \A j \in EntryDecisions :
          /\ Len(trace) <= j + 2
          /\ pc \notin {"fallback", "generate", "regenerate", "execute"}
          /\ trace[j].took = "give_up" => Len(trace) = j /\ QuestionOver
          /\ Len(trace) > j =>
                /\ trace[j + 1].ev = "generate"
                /\ trace[j + 1].mode = HelperMode(trace[j].at)
          /\ Len(trace) > j + 1 =>
                /\ trace[j + 2].ev = "execute"
                /\ trace[j + 2].code = trace[j + 1].code
          /\ QuestionOver => result.status \in {"correct", "incorrect", "error"}

C13_Witness ==
    /\ pc = "returned"
    /\ result.status = "incorrect"
    /\ \E j \in DecisionsAt("feedback_entry") :
          /\ Len(trace) = j + 2
          /\ trace[j + 2].ev = "execute"
          /\ trace[j + 2].how = "ok"
          /\ trace[j + 2].sub.next_url = "u2"

\* what retry_with_feedback returned, read off the trace: the entry check gave
\* up, or the retry's execution failed, printed nothing, or carried a verdict
FeedbackReturned(j) ==
    IF trace[j].took = "give_up" THEN Outcome("incorrect", None)
    ELSE LET e == trace[Len(trace)]
         IN IF e.how # "ok" \/ e.sub.is_empty THEN Outcome("error", None)
            ELSE IF e.sub.correct \in {"True", "yes"}
                 THEN Outcome("correct", e.sub.next_url)
                 ELSE Outcome("incorrect", e.sub.next_url)

(* C14: after a feedback retry the question's outcome has the retry's status
   unchanged; its next_url is the retry's own when the retry produced a
   non-empty one, otherwise the first (incorrect) verdict's next_url when that
   is non-empty, whatever the retry's status, otherwise the retry's own. *)
C14_NextUrlSubstitution ==
    \A j \in DecisionsAt("feedback_entry") :
        (pc = "returned" /\ trace[Len(trace)].ev \in {"execute", "decide"}) =>
            LET own == FeedbackReturned(j)
                orig == trace[FirstExecIx].sub.next_url
            IN /\ result.status = own.status
               /\ own.next_url \in URLs => result.next_url = own.next_url
               /\ (own.next_url \notin URLs /\ orig \in URLs) => result.next_url = orig
               /\ (own.next_url \notin URLs /\ orig \notin URLs)
                      => result.next_url = own.next_url

C14_Witness ==
    /\ pc = "returned"
    /\ result = Outcome("error", "u2")
    /\ \E j \in DecisionsAt("feedback_entry") :
          /\ Len(trace) = j + 2
          /\ trace[j + 2].how = "raise"
          /\ trace[FirstExecIx].sub.next_url = "u2"

(* ---------------- properties of the parser and the adapter (SpecParser) ---------------- *)
\* _parse_submission_result is about to return, or has returned to its caller
VerdictReady == parse_pc \in {"return", "parsed"}

\* the first labelled response body of the output (0: none)
FirstResponse(output) == FirstOf({j \in 1..Len(output) : IsResponse(output[j])})

\* the candidate the scavenger stops at: the first one a parser accepts (0: none)
FirstParseable(output) ==
    FirstOf({j \in 1..Len(output) :
                IsCandidate(output[j]) /\ ParseBlob(output[j].blob).kind # "fail"})

\* step 2 reads a non-empty mapping out of the first labelled body
PrimaryExtracts(output) ==
    /\ ~StatusRaises(output)
    /\ FirstResponse(output) # 0
    /\ ParseBlob(output[FirstResponse(output)].blob).kind = "dict"
    /\ ~EmptyDict(ParseBlob(output[FirstResponse(output)].blob).obj)

\* the url a mapping gives: `url`, or `next_url` when url is missing or falsy
UrlOf(d) ==
    IF d.url \notin {Absent, None, ""} THEN d.url
    ELSE IF d.next_url = Absent THEN None ELSE d.next_url

ValueOf(v) == IF v = Absent THEN None ELSE v

(* C15: _parse_submission_result never raises: whatever the labelled body or
   the scavenger candidates parse to, every exception of its three steps ends
   in its own handler and the verdict built so far is returned (the one
   ParseSubmissionResult gives); when no blob of the output parses to a
   mapping, correct, next_url and reason are all unset. *)
C15_ParserTotal ==
    /\ parse_pc # "raised"
    /\ VerdictReady =>
          /\ submission = ParseSubmissionResult(captured_output)
          /\ ~submission.is_empty
          /\ NothingParses(captured_output) =>
                /\ submission.correct = None
                /\ submission.next_url = None
                /\ submission.reason = None

C15_Witness ==
    /\ parse_pc = "parsed"
    /\ captured_output = <<StatusItem("200"), ResponseItem(PSet), BlobItem(BadQuoted)>>
    /\ submission = [NewSubmission EXCEPT !.status_code = "200"]

(* C16: when primary extraction sets correct to False, the verdict has
   correct == False with the next_url and reason of the labelled body,
   whatever other blobs the text holds before or after it. *)
C16_ScavengerGate ==
    VerdictReady =>
        LET i == FirstResponse(captured_output)
        IN (PrimaryExtracts(captured_output) /\ captured_output[i].blob.correct = "False")
              => LET d == Fields(captured_output[i].blob)
                 IN /\ submission.correct = "False"
                    /\ submission.next_url = UrlOf(d)
                    /\ submission.reason = ValueOf(d.reason)

C16_Witness ==
    /\ parse_pc = "parsed"
    /\ captured_output = <<BlobItem(JTrue), ResponseItem(JFalse), BlobItem(JTrue)>>
    /\ submission.correct = "False"
    /\ submission.next_url = "u1"
    /\ submission.reason = "r"

\* a step of the parser is being taken
ParserStepping == parse_pc \in {"status", "response", "scavenge"}

C18_TriState ==
    VerdictReady =>
        LET out == captured_output
            i == FirstResponse(out)
            j == FirstParseable(out)
        IN /\ (\A k \in 1..Len(out) : ~IsResponse(out[k]) /\ ~IsCandidate(out[k]))
                 => submission.correct = None
           /\ submission.correct = "False"
                 => \E k \in 1..Len(out) :
                       /\ out[k].kind \in {"response", "blob"}
                       /\ ParseBlob(out[k].blob).kind = "dict"
                       /\ out[k].blob.correct = "False"
           /\ (PrimaryExtracts(out) /\ out[i].blob.correct = "False")
                 => submission.correct = "False"
           /\ (/\ ~StatusRaises(out)
               /\ i = 0 \/ ParseBlob(out[i].blob).kind = "fail"
               /\ j # 0
               /\ ParseBlob(out[j].blob).kind = "dict"
               /\ out[j].blob.correct = "False")
                 => submission.correct = "False"

C18_Witness ==
    /\ parse_pc = "parsed"
    /\ captured_output = <<StatusItem("404"), ResponseItem(JUrlOnly)>>
    /\ submission.correct = None
    /\ submission.next_url = "u2"

(* C19: execute_code returns on the success path and on the failure path
   alike, and what it returns holds a submission verdict that is not None:
   {} for empty captured output, the parser's verdict for exactly the
   captured text otherwise. *)
C19_NonNullVerdict ==
    /\ parse_pc = "exec_escaped" => exec_how = "exit"
    /\ parse_pc = "exec_returned" =>
          /\ exec_how \in {"ok", "raise"}
          /\ exec_result.success = (exec_how = "ok")
          /\ ~exec_result.output_is_none
          /\ ~exec_result.submission_is_none
          /\ captured_output = <<>> => exec_result.submission_result = EmptySubmission
          /\ captured_output # <<>> =>
                /\ exec_result.submission_result = ParseSubmissionResult(captured_output)
                /\ ~exec_result.submission_result.is_empty
          /\ exec_result.submission_result
                = ExecResult(exec_how, captured_output).submission_result

C19_Witness ==
    /\ parse_pc = "exec_returned"
    /\ exec_how = "raise"
    /\ captured_output = <<StatusItem("200"), ResponseItem(JFalse)>>
    /\ ~exec_result.submission_is_none
    /\ exec_result.submission_result.correct = "False"

(* C20 as stated: every labelled response body that json.loads accepts is
   accepted by ast.literal_eval too, with the same object. *)
C20_ParsersAgree_Original ==
    VerdictReady =>
        LET i == FirstResponse(captured_output)
        IN (i # 0 /\ JsonLoads(captured_output[i].blob).kind = "dict")
              => LiteralEval(captured_output[i].blob) = JsonLoads(captured_output[i].blob)

(* C20: for a labelled response body that json.loads accepts,
   ast.literal_eval gives the same object when the text holds none of the
   tokens true, false, null and no backslash escape, and fails when it holds
   one of those tokens; the verdict is read off the object json.loads gives,
   which is tried first. *)
C20_StrictFirst ==
    VerdictReady =>
        LET i == FirstResponse(captured_output)
        IN (i # 0 /\ JsonLoads(captured_output[i].blob).kind = "dict")
              => LET b == captured_output[i].blob
                     d == JsonLoads(b).obj
                 IN /\ (~JsonOnlyTokens(b) /\ ~b.esc) => LiteralEval(b) = JsonLoads(b)
                    /\ JsonOnlyTokens(b) => LiteralEval(b).kind = "fail"
                    /\ (PrimaryExtracts(captured_output) /\ ValueOf(d.correct) # None)
                          => /\ submission.correct = d.correct
                             /\ submission.next_url = UrlOf(d)
                             /\ submission.reason = ValueOf(d.reason)

C20_Witness ==
    /\ parse_pc = "parsed"
    /\ captured_output = <<ResponseItem(JEscaped)>>
    /\ LiteralEval(JEscaped) # JsonLoads(JEscaped)
    /\ submission.correct = "yes"
    /\ submission.next_url = "u2"

(* ---------------- properties of the budget clock (SpecBudget) ---------------- *)
(* C12: the budget clock of a question starts when the question begins: two
   chains started at different instants, whose earlier questions took
   different times, read the same remaining time and take the same decisions
   for a question when they reach its decision points the same time after
   beginning it; each reading of remaining is QUIZ_TIMEOUT_SECONDS less the
   time since the question began, whatever time has passed since
   sequence_start_time. *)
C12_PerQuestionClock ==
    /\ decisions["A"] = decisions["B"]
    /\ budget_pc \in {"question", "entry", "over"} => question_start_time = began
    /\ \A c \in Chains : \A i \in 1..Len(decisions[c]) :
          decisions[c][i].remaining = QUIZ_TIMEOUT_SECONDS - decisions[c][i].off

C12_Witness ==
    /\ budget_pc = "over"
    /\ sequence_start_time["A"] # sequence_start_time["B"]
    /\ began["A"] - sequence_start_time["A"] # began["B"] - sequence_start_time["B"]
    /\ \A c \in Chains : began[c] - sequence_start_time[c] > QUIZ_TIMEOUT_SECONDS
    /\ Len(decisions["A"]) = 2
    /\ decisions["A"][1].took = "feedback"
    /\ decisions["A"][2].took = "go"

\* a verdict written back as text: a status line when status_code is set, and
\* a labelled JSON body holding correct, url (the verdict's next_url) and reason
Render(v) ==
    (IF v.status_code # None THEN <<StatusItem(v.status_code)>> ELSE <<>>)
    \o <<ResponseItem([form |-> "json", correct |-> v.correct, url |-> v.next_url,
                       next_url |-> Absent, reason |-> v.reason, quoted |-> TRUE,
                       esc |-> FALSE])>>

(* C21 as stated: parsing the text a verdict is rendered to gives the verdict
   back, in all four fields. *)
C21_Idempotent_Original ==
    VerdictReady => ParseSubmissionResult(Render(submission)) = submission

(* C21: parsing the text a verdict is rendered to gives the verdict back in
   status_code, correct and reason, and in next_url unless the verdict's
   next_url is the empty string, which the second parse turns into unset
   (`url or next_url` passes over a falsy url). *)
C21_IdempotentUpToEmptyUrl ==
    VerdictReady =>
        LET again == ParseSubmissionResult(Render(submission))
        IN /\ again.status_code = submission.status_code
           /\ again.correct = submission.correct
           /\ again.reason = submission.reason
           /\ ~again.is_empty
           /\ again.next_url = IF submission.next_url = "" THEN None ELSE submission.next_url

C21_Witness ==
    /\ parse_pc = "parsed"
    /\ captured_output = <<StatusItem("404"), BlobItem(PFalse)>>
    /\ submission.next_url = "u2"
    /\ Render(submission) # captured_output
    /\ ParseSubmissionResult(Render(submission)) = submission

(* C28 as stated: wherever the generator yields no code, the absence is
   reported as a value, not by a raised exception, and the absent code is
   never handed to execute_code. *)
C28_AbsentCode_Original ==
    /\ \A i \in Events("generate") :
          trace[i].code = None => ~GeneratorRaises(trace[i].mode)
    /\ \A i \in Events("execute") : trace[i].code # None

(* C29 as stated: whenever primary extraction leaves correct unset (no
   labelled body, a labelled body neither parser accepts, or one that parses
   to a value without a usable correct), correct, next_url and reason are
   those of the first scavenger candidate that parses. *)
C29_ScavengerOrder_Original ==
    VerdictReady =>
        LET out == captured_output
            i == FirstResponse(out)
            j == FirstParseable(out)
            primary_unset ==
                \/ i = 0
                \/ ParseBlob(out[i].blob).kind \in {"fail", "set"}
                \/ ValueOf(ParseBlob(out[i].blob).obj.correct) = None
        IN (primary_unset /\ j # 0) =>
              LET d == ParseBlob(out[j].blob).obj
              IN /\ submission.correct = ValueOf(d.correct)
                 /\ submission.next_url = UrlOf(d)
                 /\ submission.reason = ValueOf(d.reason)

(* C30: in both retry helpers a successful execution whose verdict is present
   with correct unset gives INCORRECT with the verdict's next_url (after a
   feedback retry, the first verdict's next_url when the retry's is empty),
   whereas a first execution with a verdict of that shape gives ERROR with
   no next_url. *)
C30_RetryUnsetIsIncorrect ==
    /\ \A j \in EntryDecisions :
          (/\ pc = "returned"
           /\ Len(trace) = j + 2
           /\ trace[j + 2].how = "ok"
           /\ ~trace[j + 2].sub.is_empty
           /\ trace[j + 2].sub.correct = None)
              => LET own == trace[j + 2].sub.next_url
                     orig == trace[FirstExecIx].sub.next_url
                 IN /\ result.status = "incorrect"
                    /\ trace[j].at = "fix_entry" => result.next_url = own
                    /\ trace[j].at = "feedback_entry" =>
                          result.next_url = IF own \notin URLs /\ orig \in URLs THEN orig ELSE own
    /\ \A i \in Events("execute") :
          (FirstOk(i) /\ ~trace[i].sub.is_empty /\ trace[i].sub.correct = None)
              => /\ QuestionOver
                 /\ Len(trace) = i
                 /\ result = Outcome("error", None)

C30_Witness ==
    /\ pc = "returned"
    /\ result = Outcome("incorrect", "u2")
    /\ \E j \in DecisionsAt("fix_entry") :
          /\ Len(trace) = j + 2
          /\ trace[j + 2].how = "ok"
          /\ ~trace[j + 2].sub.is_empty
          /\ trace[j + 2].sub.correct = None
          /\ trace[j + 2].sub.next_url = "u2"

\* the requests received so far
Received == 1..Len(inbox)

\* the task of request r has taken its first step
ChainStepped(r) == chain[r].pc \notin {"none", "created"}

(* C22: a chain exists only for a request whose secret equals
   settings.STUDENT_SECRET; a request with another secret is answered 403 and
   gets no QuizHandler and no task, and a request with the right secret gets
   its chain whatever its email is. *)
C22_SecretGate ==
    \A r \in Received :
        /\ chain[r].pc # "none" =>
              inbox[r].payload = "valid" /\ inbox[r].secret = STUDENT_SECRET
        /\ (handler_pc[r] = "returned" /\ inbox[r].payload = "valid") =>
              IF inbox[r].secret = STUDENT_SECRET
              THEN response[r] = 200 /\ chain[r].pc # "none"
              ELSE response[r] = 403 /\ chain[r] = NoChain

C22_Witness ==
    /\ Len(inbox) = 2
    /\ inbox[1].payload = "valid" /\ inbox[1].secret = "guess" /\ inbox[1].email = STUDENT_EMAIL
    /\ response[1] = 403
    /\ inbox[2].secret = STUDENT_SECRET /\ inbox[2].email = "someone"
    /\ response[2] = 200
    /\ ChainStepped(2)

(* C23: for an accepted request the 200 is produced before the chain takes
   its first step (between create_task and the return the handler keeps the
   thread), a response once produced never changes, no step of a chain
   touches a response, and the only statuses are 200, 400, 403 and 500. *)
C23_FireAndForget ==
    /\ [](\A r \in Received :
            /\ response[r] \in {0, 200, 400, 403, 500}
            /\ ChainStepped(r) => response[r] = 200
            /\ handler_pc[r] = "spawned" => holder = Handler(r) /\ chain[r].pc = "created"
            /\ handler_pc[r] = "returned" => response[r] # 0)
    /\ [][\A r \in Received :
            /\ response[r] # 0 => response'[r] = response[r]
            /\ actor'.kind = "chain" => response'[r] = response[r]]_allvars

C23_Witness ==
    /\ Len(inbox) = 2
    /\ response[1] = 200
    /\ chain[1].pc = "done"
    /\ chain[1].stats.errors = 1
    /\ ~chain[1].execution_result.success
    /\ response[2] = 500

(* C24: a chain's locals (stats, current URL, question clock, execution
   result) change only in that chain's own steps; the output an execution
   returns is exactly what its own program printed; and sys.stdout points at
   a capture buffer only while the owner of the buffer is inside exec and has
   the thread. *)
C24_ChainIsolation ==
    /\ [](sys_stdout # 0 =>
            chain[sys_stdout].pc = "exec_network" /\ holder = ChainTask(sys_stdout))
    /\ [][\A c \in RequestIds :
            /\ chain'[c] # chain[c] =>
                  actor' = ChainTask(c) \/ (actor' = Handler(c) /\ chain[c] = NoChain)
            /\ (chain[c].pc = "exec_network" /\ chain'[c].pc # "exec_network") =>
                  chain'[c].execution_result.output = <<c>>]_allvars

C24_Witness ==
    /\ chain[1].pc = "generate"
    /\ chain[1].retried
    /\ chain[1].execution_result.output = <<1>>
    /\ chain[2].pc = "exec_network"
    /\ chain[2].quiz_number = 2
    /\ sys_stdout = 2

(* C25 as stated: while a chain is in its page fetch, in its call to the
   reasoning engine or in the network calls of its executed code, the thread
   is free for the other chains and for the endpoint. *)
C25_Yields_Original ==
    \A c \in RequestIds :
        chain[c].pc \in {"fetch", "generate", "exec_network"} => holder = Free

(* C26 as stated: whenever control has left a fetch step, by return or by
   exception, everything its BrowserEngine acquired (driver, browser, context,
   page) has been released. *)
C26_Released_Original == engine_pc = "idle" => leaked = 0

(* C27: every execution starts from the registry's bindings plus the injected
   STUDENT_SECRET and the QUIZ_URL of its own question, whatever earlier
   programs bound, rebound or deleted at top level, and the registry keeps
   the bindings it was built with. *)
C27_FreshNamespace ==
    /\ heap["registry"] = Registry
    /\ sandbox_pc = "running" =>
          /\ \A n \in Names \ {"QUIZ_URL", "STUDENT_SECRET"} : seen[n] = Registry[n]
          /\ seen["STUDENT_SECRET"] = STUDENT_SECRET
          /\ seen["QUIZ_URL"] \in URLs

C27_Witness ==
    /\ runs = 1
    /\ sandbox_pc = "running"
    /\ env_ref = "env2"
    /\ heap["env1"]["pd"] = Absent
    /\ heap["env1"]["answer"] = "42"
    /\ heap["env1"]["QUIZ_URL"] = "u1"
    /\ seen["pd"] = "pandas"
    /\ seen["answer"] = Absent
    /\ seen["QUIZ_URL"] = "u2"

\* the feedback retry of this question passed its entry check
FeedbackWent == \E j \in DecisionsAt("feedback_entry") : trace[j].took = "go"

Counters == {"correct", "incorrect", "skipped", "errors"}

\* the counter an outcome's status is tallied in
CounterOf(status) == IF status = "error" THEN "errors" ELSE status

(* C32: stats.total is the number of questions processed so far and the sum
   of the four other counters; every outcome has one of the four statuses;
   each iteration adds one to total and one to the counter of the outcome's
   status and changes nothing else, so no counter ever decreases. *)
C32_StatsInvariant ==
    /\ [](/\ stats.total = stats.correct + stats.incorrect + stats.skipped + stats.errors
          /\ pc = "returned" => result.status \in {"correct", "incorrect", "skipped", "error"}
          /\ pc \notin {"off", "done"} => stats.total = quiz_number - 1
          /\ pc = "done" => stats.total = IF result.status = "none" THEN 0 ELSE quiz_number)
    /\ [][stats' # stats =>
            /\ pc = "returned"
            /\ stats'.total = stats.total + 1
            /\ \A k \in Counters :
                  stats'[k] = IF k = CounterOf(result.status) THEN stats[k] + 1 ELSE stats[k]]_allvars

C32_Witness ==
    /\ pc = "done"
    /\ stats = [total |-> 2, correct |-> 0, incorrect |-> 0, skipped |-> 1, errors |-> 1]
    /\ quiz_number = 2

(* C33: within one question the page is fetched once, every generator call
   is given the question data that fetch returned, there are at most three
   generator calls, two executions and one fallback submission; and when
   every awaited call comes back the question reaches an outcome (or the
   executed program's BaseException leaves the task). *)
C33_BoundedWork ==
    /\ [](/\ Count("fetch") <= 1
          /\ (pc \notin {"off", "loop", "fetch", "done"} \/ QuestionOver) => Count("fetch") = 1
          /\ Count("generate") <= 3
          /\ Count("execute") <= 2
          /\ Count("fallback") <= 1
          /\ \A i \in Events("generate") : trace[i].question = question_data
          /\ (Count("generate") > 0 /\ pc \notin {"loop", "done"}) => question_data = current_url)
    /\ (pc = "fetch") ~> (pc \in {"returned", "escaped"})

C33_Witness ==
    /\ pc = "returned"
    /\ Count("fetch") = 1
    /\ Count("generate") = 3
    /\ Count("execute") = 2
    /\ trace[Len(trace)].ev = "execute"
    /\ trace[Len(trace)].code = "code3"

(* C34: when the first generation returns no code, the clock allows a
   regeneration and the regeneration returns no code either, the question
   ends there with ERROR and no next_url: nothing is executed and no fallback
   submission is made. *)
C34_DoubleNoCode ==
    (/\ Len(trace) >= 4
     /\ trace[2].ev = "generate" /\ trace[2].code = None
     /\ trace[3].ev = "decide" /\ trace[3].took = "regenerate"
     /\ trace[4].ev = "generate" /\ trace[4].code = None)
        => /\ QuestionOver
           /\ Len(trace) = 4
           /\ result = Outcome("error", None)
           /\ Events("execute") = {}
           /\ Events("fallback") = {}

C34_Witness ==
    /\ pc = "returned"
    /\ Len(trace) = 4
    /\ trace[3].ev = "decide" /\ trace[3].at = "no_code" /\ trace[3].remaining > TwiceThreshold
    /\ trace[4].ev = "generate" /\ trace[4].code = None
    /\ result = Outcome("error", None)

(* C35: an execution that raises after its program printed a parseable
   verdict has that verdict disregarded: after the first execution the
   failure branch follows, fix retry or fallback by the clock alone, and a
   retry helper returns ERROR with no next_url of its own (after a feedback
   retry the caller may still put the first verdict's next_url in). *)
C35_VerdictDisregarded ==
    /\ \A i \in Events("execute") :
          (FirstFailed(i) /\ trace[i].sub.correct # None) =>
              /\ NextIs(i, "decide")
              /\ trace[i + 1].at = "exec_failed"
              /\ trace[i + 1].took = IF trace[i + 1].remaining > TwiceThreshold THEN "fix" ELSE "fallback"
              /\ (pc = "returned" /\ Len(trace) = i + 2 /\ trace[i + 2].ev = "fallback") =>
                    result = FallbackOutcome(trace[i + 2].resp)
    /\ \A j \in EntryDecisions :
          (/\ pc = "returned"
           /\ Len(trace) = j + 2
           /\ trace[j + 2].ev = "execute"
           /\ trace[j + 2].how = "raise"
           /\ trace[j + 2].sub.correct # None)
              => /\ result.status = "error"
                 /\ result.next_url =
                       IF trace[j].at = "feedback_entry" /\ Truthy(FirstNextUrl)
                       THEN FirstNextUrl ELSE None

C35_Witness ==
    /\ pc = "returned"
    /\ result = Outcome("error", None)
    /\ \E j \in DecisionsAt("fix_entry") :
          /\ Len(trace) = j + 2
          /\ trace[j + 2].how = "raise"
          /\ trace[j + 2].sub.correct = "True"
          /\ trace[j + 2].sub.next_url = "u2"
          /\ trace[FirstExecIx].sub.correct = "True"

(* C36: however execute_code is left, by return after a successful run, by
   return after a caught exception, or by an exception it does not catch,
   sys.stdout is again the stream it was on entry, and the captured output
   holds everything the program printed before it ended. While the program
   runs the stream is the StringIO; the stream is already back when the
   finally block calls the parser. *)
C36_StdoutRestored ==
    /\ parse_pc \in {"exec_try", "exec_except", "exec_finally"} =>
          stdout = "capture" /\ old_stdout = "console"
    /\ exec_how # "none" /\ parse_pc \in {"status", "response", "scavenge", "except", "return"} =>
          stdout = old_stdout
    /\ parse_pc \in {"exec_returned", "exec_escaped"} =>
          /\ stdout = "console"
          /\ stdout = old_stdout
          /\ captured_output = printed
          /\ ~exec_result.output_is_none

C36_Witness ==
    /\ parse_pc = "exec_escaped"
    /\ exec_how = "exit"
    /\ stdout = "console"
    /\ printed = <<StatusItem("200"), ResponseItem(JFalse)>>
    /\ captured_output = printed
    /\ ~exec_result.output_is_none

====
